---------------------------- MODULE Spec2Model ----------------------------
(***************************************************************************)
(* Model of hoover.py (class HarborCleanup): the retried registry client,  *)
(* the retention policy, the two-level concurrent scan and the batched     *)
(* delete phase.                                                           *)
(*                                                                         *)
(* Strings whose characters the code inspects (repository names, tags,     *)
(* tag patterns) are tuples of one-character strings, so that split('/'),  *)
(* `in`, startswith and endswith are computed and not assumed.             *)
(***************************************************************************)
EXTENDS Integers, Sequences, FiniteSets, Bags, TLC

VARIABLES
    \* ---- configuration (HarborCleanup.__init__), fixed during a run
    dry_run,                \* self.dry_run
    max_workers,            \* self.max_workers
    \* ---- the registry the run talks to (stable during a run)
    registry,               \* [repos |-> listing, artifacts |-> per-repository listing]
    \* ---- cleanup()
    phase,                  \* position of cleanup(): "start","scan","delete","display","done","aborted"
    filtered_repos,         \* cleanup's filtered_repos
    repoW,                  \* one record per submitted process_repository future
    all_artifacts_to_delete,\* cleanup's merged list
    stats,                  \* self._stats
    \* ---- delete / dry-run phase
    batches,                \* _delete_artifacts_parallel's batches
    batchW,                 \* one record per submitted delete_artifacts_batch future
    total_deleted,          \* _delete_artifacts_parallel's total_deleted
    unique_list,            \* _display_dry_run_results' unique_list
    \* ---- observation of the run (what reached the registry, what surfaced)
    deleteCalls,            \* bag of the (repo_name, digest) of every delete_artifact call
    deleteRequests,         \* number of DELETE requests sent to the registry
    sslSeen,                \* a registry call of the run raised SSLError
    topError,               \* the exception that left cleanup(), "none" if none did
    requested,              \* the <<kind, repo_name>> of every artifact request of the run
    deleteOk,               \* number of delete_artifact calls that returned True
    freedBytes,             \* sum of size_bytes over the delete_artifact calls that returned True
    deleted_size,           \* cleanup's deleted_size_mb, as the exact quotient in bytes
    \* ---- one make_api_request call, stepped attempt by attempt (SpecRetry)
    rq,                     \* [pc, attempt, retry_delay, outcomes, slept, result, calls, history]
    \* ---- the threads of one repository scan, stepped through `with self._lock` (SpecLock)
    lk,                     \* [holder, threads]
    \* ---- one evaluation of the retention policy (SpecPolicy)
    pol,                    \* [pc, repo_name, details, skip, last, old]
    \* ---- one grouping of a candidate list into delete batches (SpecBatch)
    bt,                     \* [pc, artifacts_to_delete, max_workers, batches]
    \* ---- one listing, stepped page by page (SpecPage)
    pg,                     \* [pc, items, page_size, page, all, pages, outs, result]
    \* ---- one tag-pattern test of should_skip_artifact (SpecPattern)
    pm                      \* [pc, pattern, tag_name, tags, matches, skip]

vars == <<dry_run, max_workers, registry, phase, filtered_repos, repoW,
          all_artifacts_to_delete, stats, batches, batchW, total_deleted,
          unique_list, deleteCalls, deleteRequests, sslSeen, topError,
          requested, deleteOk, freedBytes, deleted_size, rq, lk, pol, bt, pg, pm>>

cfgVars  == <<dry_run, max_workers, registry>>
runVars  == <<phase, filtered_repos, repoW, all_artifacts_to_delete, stats,
              batches, batchW, total_deleted, unique_list, deleteCalls,
              deleteRequests, sslSeen, topError, requested, deleteOk,
              freedBytes, deleted_size>>
auxVars  == <<rq, lk, pol, bt, pg, pm>>

-----------------------------------------------------------------------------
(* Bounds of the model *)

\* max_workers is drawn from 1..MaxWorkers
MaxWorkers == 2
\* number of make_api_request calls stepped through in SpecRetry
MaxCalls == 2
\* the well-formed timestamps of SpecPolicy are 0..MaxTime
MaxTime == 9
\* SpecBatch groups lists of 1..MaxTotal candidates for 1..MaxBatchWorkers workers
MaxTotal == 10
MaxBatchWorkers == 6
\* SpecPage lists registries of 0..MaxItems items in pages of 1..MaxPageSize
MaxItems == 6
MaxPageSize == 3
\* SpecPattern draws patterns and tag names of at most MaxNameLen characters
MaxNameLen == 3

-----------------------------------------------------------------------------
(* Strings *)

RECURSIVE LastSlash(_, _)
\* index of the last '/' in s at or before position i, 0 if none
LastSlash(s, i) ==
    IF i = 0 THEN 0
    ELSE IF s[i] = "/" THEN i ELSE LastSlash(s, i - 1)

\* name.split('/')[-1]
ShortName(name) == SubSeq(name, LastSlash(name, Len(name)) + 1, Len(name))

\* tag_name.startswith(p)
StartsWith(s, p) == Len(p) <= Len(s) /\ SubSeq(s, 1, Len(p)) = p

\* tag_name.endswith(p)
EndsWith(s, p) == Len(p) <= Len(s) /\ SubSeq(s, Len(s) - Len(p) + 1, Len(s)) = p

\* sub in s
Contains(s, sub) ==
    \E i \in 0..(Len(s) - Len(sub)) : SubSeq(s, i + 1, i + Len(sub)) = sub

-----------------------------------------------------------------------------
(* make_api_request: the retry loop *)

max_retries == 3

\* what one requests.request + raise_for_status can do: a response, an
\* SSLError, or another RequestException (Timeout, ConnectionError, or the
\* HTTPError of raise_for_status)
Transient == {"timeout", "connection", "http_error"}
Outcomes  == {"ok", "ssl"} \cup Transient

\* one outcome per possible attempt of a call made during a run; an attempt
\* after the one that ends the call is never made, its outcome repeats
OutcomeSeqs ==
    { outs \in [1..max_retries -> {"ok", "timeout", "ssl"}] :
        \A i \in 1..(max_retries - 1) :
            outs[i] \in {"ok", "ssl"} => outs[i + 1] = outs[i] }

\* variant: no `except SSLError` clause, an SSLError is retried like the rest
AfterAttempt_RetrySSL(attempt, outcome) ==
    IF outcome = "ok" THEN "return"
    ELSE IF attempt < max_retries - 1 THEN "sleep"
    ELSE "raise"

\* variant: `attempt < max_retries`, the last failure sleeps instead of raising
AfterAttempt_NoLimit(attempt, outcome) ==
    IF outcome = "ok" THEN "return"
    ELSE IF outcome = "ssl" THEN "raise"
    ELSE IF attempt < max_retries THEN "sleep"
    ELSE "raise"

\* The handler of one attempt (attempt is range(max_retries)'s 0-based index):
\* "return" the response, "raise" the exception, or "sleep" and loop.
AfterAttempt(attempt, outcome) ==
    IF outcome = "ok" THEN "return"
    ELSE IF outcome = "ssl" THEN "raise"
    ELSE IF attempt < max_retries - 1 THEN "sleep"
    ELSE "raise"

\* the exception an outcome stands for
ExcOf(outcome) ==
    CASE outcome = "ssl"        -> "SSLError"
      [] outcome = "timeout"    -> "Timeout"
      [] outcome = "connection" -> "ConnectionError"
      [] outcome = "http_error" -> "HTTPError"
      [] OTHER                  -> "none"

RECURSIVE ApiLoop(_, _, _)
\* the for loop from `attempt` on; outs[attempt + 1] is that attempt's outcome
ApiLoop(outs, attempt, sleeps) ==
    IF attempt >= max_retries   \* range(max_retries) is exhausted: falls off the loop
    THEN [status |-> "none", requests |-> attempt, sleeps |-> sleeps]
    ELSE LET o == outs[attempt + 1]
             a == AfterAttempt(attempt, o)
         IN  IF a = "return"
             THEN [status |-> "ok", requests |-> attempt + 1, sleeps |-> sleeps]
             ELSE IF a = "raise"
             THEN [status |-> ExcOf(o), requests |-> attempt + 1, sleeps |-> sleeps]
             ELSE ApiLoop(outs, attempt + 1, sleeps + 1)

\* make_api_request(method, endpoint) when the attempts' outcomes are outs
make_api_request(outs) == ApiLoop(outs, 0, 0)

-----------------------------------------------------------------------------
(* Registry data as the JSON the code reads *)

\* a timestamp field of a detail record: the key is absent, or its value is
\* null, "", a string strptime rejects, or a well-formed timestamp t
Absent == [kind |-> "absent", t |-> 0]
Null   == [kind |-> "null",   t |-> 0]
Empty  == [kind |-> "empty",  t |-> 0]
Bad    == [kind |-> "bad",    t |-> 0]
At(t)  == [kind |-> "time",   t |-> t]

\* Well-formed timestamps are counted in half years from 1969-01-01.
TicksPerYear == 2
Year(t) == 1969 + (t \div TicksPerYear)

\* a tag entry of details['tags']: a dict with a name, or something else (None)
Tag(name) == [dict |-> TRUE, name |-> name]
NotATag   == [dict |-> FALSE, name |-> <<>>]

\* details['tags']: null/absent, not a list, or a list of entries
TagsNone     == [kind |-> "none",    items |-> <<>>]
TagsNotList  == [kind |-> "notlist", items |-> <<>>]
TagList(seq) == [kind |-> "list",    items |-> seq]

\* details['extra_attrs']: absent, null, or a dict (created is Absent when
\* the dict has no 'created' key)
NoExtra        == [kind |-> "absent", created |-> Absent]
NullExtra      == [kind |-> "null",   created |-> Absent]
Extra(created) == [kind |-> "dict",   created |-> created]

\* a detail record: a dict with the fields read, or a falsy body ("empty":
\* {}, null), or a truthy body that is not a dict ("nondict")
Details(tags, pull, push, extra, size) ==
    [shape |-> "dict", tags |-> tags, pull_time |-> pull, push_time |-> push,
     extra_attrs |-> extra, size |-> size]
EmptyDetails   == [shape |-> "empty", tags |-> TagsNone, pull_time |-> Absent,
                   push_time |-> Absent, extra_attrs |-> NoExtra, size |-> 0]
NonDictDetails == [shape |-> "nondict", tags |-> TagsNone, pull_time |-> Absent,
                   push_time |-> Absent, extra_attrs |-> NoExtra, size |-> 0]

-----------------------------------------------------------------------------
(* Retention policy *)

\* self.protected_tags (the default of __init__ / _load_config)
protected_tags == { <<"l","a","t","e","s","t">>, <<"s","t","a","b","l","e">>,
                    <<"p","r","o","d">> }

\* self.exclusions
exclusions ==
    [repositories  |-> { <<"o","l","d","-","s","d","p">> },
     tags_patterns |-> << <<"r","c","-","*">>, <<"*","-","s","n","a","p">> >>]

\* self.cutoff_date, on the scale of the timestamps
cutoff_date == 8

\* results of the policy functions: a value or a raised exception
Val(v) == [exc |-> FALSE, val |-> v]
Raised == [exc |-> TRUE,  val |-> FALSE]

\* the names of the entries the loops of should_skip_artifact look at
TagNames(tags) ==
    { tags.items[i].name : i \in { j \in 1..Len(tags.items) : tags.items[j].dict } }

\* variant: only the trailing '*' is understood
PatternMatches_PrefixOnly(pattern, tag_name) ==
    /\ Len(pattern) >= 1 /\ pattern[Len(pattern)] = "*"
    /\ StartsWith(tag_name, SubSeq(pattern, 1, Len(pattern) - 1))

\* pattern.startswith('*') and tag_name.endswith(pattern[1:]), or
\* pattern.endswith('*') and tag_name.startswith(pattern[:-1])
PatternMatches(pattern, tag_name) ==
    \/ /\ Len(pattern) >= 1 /\ pattern[1] = "*"
       /\ EndsWith(tag_name, SubSeq(pattern, 2, Len(pattern)))
    \/ /\ Len(pattern) >= 1 /\ pattern[Len(pattern)] = "*"
       /\ StartsWith(tag_name, SubSeq(pattern, 1, Len(pattern) - 1))

\* variant: without the protected-tag loop
should_skip_artifact_NoProtected(repo_name, d) ==
    IF d.shape = "empty" THEN Val(TRUE)
    ELSE IF d.shape = "nondict" THEN Raised
    ELSE IF d.tags.kind = "notlist" THEN Val(TRUE)
    ELSE IF repo_name \in exclusions.repositories THEN Val(TRUE)
    ELSE Val(\E n \in TagNames(d.tags) :
               \E k \in 1..Len(exclusions.tags_patterns) :
                   PatternMatches(exclusions.tags_patterns[k], n))

\* variant: without the test of exclusions['repositories']
should_skip_artifact_NoRepoExclusion(repo_name, d) ==
    IF d.shape = "empty" THEN Val(TRUE)
    ELSE IF d.shape = "nondict" THEN Raised
    ELSE IF d.tags.kind = "notlist" THEN Val(TRUE)
    ELSE IF \E n \in TagNames(d.tags) : n \in protected_tags THEN Val(TRUE)
    ELSE Val(\E n \in TagNames(d.tags) :
               \E k \in 1..Len(exclusions.tags_patterns) :
                   PatternMatches(exclusions.tags_patterns[k], n))

should_skip_artifact(repo_name, d) ==
    IF d.shape = "empty" THEN Val(TRUE)              \* not artifact_details
    ELSE IF d.shape = "nondict" THEN Raised          \* .get on a non-dict
    ELSE IF d.tags.kind = "notlist" THEN Val(TRUE)   \* not isinstance(tags, list)
    ELSE IF \E n \in TagNames(d.tags) : n \in protected_tags THEN Val(TRUE)
    ELSE IF repo_name \in exclusions.repositories THEN Val(TRUE)
    ELSE Val(\E n \in TagNames(d.tags) :
               \E k \in 1..Len(exclusions.tags_patterns) :
                   PatternMatches(exclusions.tags_patterns[k], n))

\* One `if key in d and d[key]: try strptime ... if year > 1970: return`
\* block: the timestamp it returns, or "next" when it falls through.
Meaningful(f) == f.kind = "time" /\ Year(f.t) > 1970

\* get_last_pull_time: [kind |-> "time", t], [kind |-> "none"] or a raise
NoTime    == [kind |-> "none",  t |-> 0]
TimeRaise == [kind |-> "raise", t |-> 0]
get_last_pull_time(d) ==
    IF Meaningful(d.pull_time) THEN [kind |-> "time", t |-> d.pull_time.t]
    ELSE IF Meaningful(d.push_time) THEN [kind |-> "time", t |-> d.push_time.t]
    ELSE IF d.extra_attrs.kind = "absent" THEN NoTime
    ELSE IF d.extra_attrs.kind = "null" THEN TimeRaise   \* 'created' in None
    ELSE IF d.extra_attrs.created.kind = "absent" THEN NoTime
    ELSE IF d.extra_attrs.created.kind = "null" THEN TimeRaise \* strptime(None, ...)
    ELSE IF Meaningful(d.extra_attrs.created)
         THEN [kind |-> "time", t |-> d.extra_attrs.created.t]
    ELSE NoTime

is_artifact_old(d) ==
    LET pull_time == get_last_pull_time(d)
    IN  IF pull_time.kind = "raise" THEN Raised
        ELSE IF pull_time.kind = "none" THEN Val(TRUE)
        ELSE Val(pull_time.t < cutoff_date)

-----------------------------------------------------------------------------
(* Registries the runs are checked against *)

v1     == <<"v","1">>
v2     == <<"v","2">>
latest == <<"l","a","t","e","s","t">>
rc1    == <<"r","c","-","1">>

\* pulled before the cutoff, no protected tag: a deletion candidate
OldPlain(size)  == Details(TagList(<<Tag(v1)>>), At(5), At(4), NoExtra, size)
\* pulled before the cutoff, but tagged latest
OldProtected    == Details(TagList(<<Tag(v2), Tag(latest)>>), At(5), At(4), NoExtra, 2)
\* never pulled (pull_time at the epoch, nothing else), tagged latest
BareProtected   == Details(TagList(<<NotATag, Tag(latest)>>), At(2), Absent, NoExtra, 1)
\* pulled after the cutoff
Recent          == Details(TagList(<<Tag(v2)>>), At(9), At(4), NoExtra, 1)
\* no usable timestamp at all, tags null
NoHistory       == Details(TagsNone, Empty, Bad, Extra(At(3)), 1)
\* old, excluded by the tag pattern rc-*
OldPattern      == Details(TagList(<<Tag(rc1)>>), At(5), At(4), NoExtra, 1)
\* old, tags is not a list
OldBadTags      == Details(TagsNotList, At(5), At(4), NoExtra, 1)
\* extra_attrs is null and no other timestamp is usable
NullExtraAttrs  == Details(TagList(<<Tag(v1)>>), Null, Absent, NullExtra, 1)

\* digests, as the registry writes them
Sha(c) == <<"s","h","a",":">> \o <<c>>
sha_a == Sha("a")
sha_b == Sha("b")
sha_c == Sha("c")
sha_e == Sha("e")
sha_h == Sha("h")
sha_l == Sha("l")
sha_n == Sha("n")
sha_o == Sha("o")
sha_p == Sha("p")
sha_r == Sha("r")
sha_t == Sha("t")
sha_w == Sha("w")
sha_x == Sha("x")

Summary(digest) == [has_digest |-> TRUE, digest |-> digest]
NoDigest        == [has_digest |-> FALSE, digest |-> <<>>]

svc_cdp == <<"s","v","c","-","c","d","p">>
old_sdp == <<"o","l","d","-","s","d","p">>
x_sdp   == <<"x","-","s","d","p">>
other   == <<"o","t","h","e","r">>
web     == <<"w","e","b">>
InProject(short) == <<"p","/">> \o short

\* The end-to-end scenario: A is old, B is protected, C's repository is out
\* of scope.
RegistryA ==
    [repos     |-> << InProject(svc_cdp), InProject(other) >>,
     artifacts |-> (svc_cdp :> << Summary(sha_a), Summary(sha_b) >>) @@
                   (other   :> << Summary(sha_c) >>),
     details   |-> (<<svc_cdp, sha_a>> :> OldPlain(3)) @@
                   (<<svc_cdp, sha_b>> :> OldProtected) @@
                   (<<other,   sha_c>> :> OldPlain(1))]

\* An inconsistent listing (sha-a twice), a recent artifact, and an excluded
\* repository scanned beside it.
RegistryB ==
    [repos     |-> << InProject(svc_cdp), InProject(old_sdp) >>,
     artifacts |-> (svc_cdp :> << Summary(sha_a), Summary(sha_a), Summary(sha_r) >>) @@
                   (old_sdp :> << Summary(sha_o) >>),
     details   |-> (<<svc_cdp, sha_a>> :> OldPlain(2)) @@
                   (<<svc_cdp, sha_r>> :> Recent) @@
                   (<<old_sdp, sha_o>> :> OldPlain(1))]

\* Missing and malformed data next to good data; a repository whose project
\* path, not its short name, contains "cdp".
RegistryC ==
    [repos     |-> << <<"c","d","p","/">> \o web, InProject(x_sdp), InProject(svc_cdp) >>,
     artifacts |-> (web     :> << Summary(sha_w) >>) @@
                   (x_sdp   :> << NoDigest, Summary(sha_n), Summary(sha_e) >>) @@
                   (svc_cdp :> << Summary(sha_h), Summary(sha_p) >>),
     details   |-> (<<web,     sha_w>> :> OldPlain(1)) @@
                   (<<x_sdp,   sha_n>> :> NonDictDetails) @@
                   (<<x_sdp,   sha_e>> :> EmptyDetails) @@
                   (<<svc_cdp, sha_h>> :> NoHistory) @@
                   (<<svc_cdp, sha_p>> :> BareProtected)]

\* Detail records the policy rejects or chokes on, one repository.
RegistryD ==
    [repos     |-> << InProject(x_sdp) >>,
     artifacts |-> (x_sdp :> << Summary(sha_t), Summary(sha_l), Summary(sha_x) >>),
     details   |-> (<<x_sdp, sha_t>> :> OldPattern) @@
                   (<<x_sdp, sha_l>> :> OldBadTags) @@
                   (<<x_sdp, sha_x>> :> NullExtraAttrs)]

\* More artifacts in one repository than a repository's pool has threads;
\* all of them are in use, none is a candidate.
RegistryE ==
    [repos     |-> << InProject(svc_cdp) >>,
     artifacts |-> (svc_cdp :> << Summary(sha_a), Summary(sha_b), Summary(sha_c),
                                  Summary(sha_e), Summary(sha_h), Summary(sha_l) >>),
     details   |-> [pair \in {svc_cdp} \X {sha_a, sha_b, sha_c, sha_e, sha_h, sha_l}
                       |-> Recent]]

\* Three candidates of different sizes in one repository.
RegistryF ==
    [repos     |-> << InProject(svc_cdp) >>,
     artifacts |-> (svc_cdp :> << Summary(sha_a), Summary(sha_b), Summary(sha_c) >>),
     details   |-> (<<svc_cdp, sha_a>> :> OldPlain(1)) @@
                   (<<svc_cdp, sha_b>> :> OldPlain(2)) @@
                   (<<svc_cdp, sha_c>> :> OldPlain(4))]

Registries == {RegistryA, RegistryB, RegistryC, RegistryD, RegistryF}

\* the registries in which a pool has more work than threads: repositories
\* (B with one worker), artifacts of a repository (E), delete batches (F)
PoolRegistries == {RegistryB, RegistryE, RegistryF}

-----------------------------------------------------------------------------
(* Registry client *)

page_size == 100

\* number of page requests a listing of n items makes when none fails
PagesNeeded(n, ps) == (n \div ps) + 1

\* items[(page-1)*ps + 1 .. page*ps], what the registry returns for a page
PageOf(items, ps, page) ==
    SubSeq(items, (page - 1) * ps + 1,
           IF page * ps < Len(items) THEN page * ps ELSE Len(items))

RECURSIVE PageLoop_KeepsPartial(_, _, _, _, _)
\* variant: a page that fails ends the loop with what was collected
PageLoop_KeepsPartial(items, ps, page, all, pageOuts) ==
    LET response == make_api_request(pageOuts[page])
        got      == PageOf(items, ps, page)
    IN  IF response.status # "ok"
        THEN [status |-> "ok", items |-> all]
        ELSE IF got = <<>> THEN [status |-> "ok", items |-> all]
        ELSE IF Len(got) < ps THEN [status |-> "ok", items |-> all \o got]
        ELSE PageLoop_KeepsPartial(items, ps, page + 1, all \o got, pageOuts)

RECURSIVE PageLoop(_, _, _, _, _)
\* the `while True` loop of get_repositories / get_artifacts from `page` on;
\* pageOuts[page] are the outcomes of that page's make_api_request
PageLoop(items, ps, page, all, pageOuts) ==
    LET response == make_api_request(pageOuts[page])
        got      == PageOf(items, ps, page)
    IN  IF response.status # "ok"
        THEN [status |-> response.status, items |-> <<>>]     \* the exception leaves the loop
        ELSE IF got = <<>> THEN [status |-> "ok", items |-> all]
        ELSE IF Len(got) < ps THEN [status |-> "ok", items |-> all \o got]
        ELSE PageLoop(items, ps, page + 1, all \o got, pageOuts)

\* get_repositories()
get_repositories(pageOuts) == PageLoop(registry.repos, page_size, 1, <<>>, pageOuts)

\* get_artifacts(repository_name)
get_artifacts(repository_name, pageOuts) ==
    PageLoop(registry.artifacts[repository_name], page_size, 1, <<>>, pageOuts)

\* get_artifact_details(repository_name, artifact_digest): the JSON body, or
\* None after any exception of make_api_request
NoDetails == [some |-> FALSE, json |-> EmptyDetails, exc |-> "none"]
get_artifact_details(repository_name, artifact_digest, outs) ==
    LET response == make_api_request(outs)
    IN  IF response.status = "ok"
        THEN [some |-> TRUE, json |-> registry.details[<<repository_name, artifact_digest>>],
              exc |-> "none"]
        ELSE [some |-> FALSE, json |-> EmptyDetails, exc |-> response.status]

\* delete_artifact(repository_name, artifact_digest): its return value, the
\* DELETE requests it sent and the exception it swallowed
delete_artifact(dry, outs) ==
    IF dry THEN [ok |-> TRUE, requests |-> 0, exc |-> "none"]
    ELSE LET response == make_api_request(outs)
         IN  [ok |-> response.status = "ok", requests |-> response.requests,
              exc |-> IF response.status = "ok" THEN "none" ELSE response.status]

-----------------------------------------------------------------------------
(* Scan: process_artifact and process_repository *)

\* [tag.get('name', '') for tag in tags if tag and isinstance(tag, dict)]
RECURSIVE TagNameList(_)
TagNameList(items) ==
    IF items = <<>> THEN <<>>
    ELSE (IF Head(items).dict THEN <<Head(items).name>> ELSE <<>>)
         \o TagNameList(Tail(items))

ArtifactInfo(repo_name, digest, d) ==
    LET tags == TagNameList(d.tags.items)
    IN  [repo_name      |-> repo_name,
         digest         |-> digest,
         last_pull_time |-> get_last_pull_time(d),
         size_bytes     |-> d.size,
         tags           |-> tags,
         is_latest      |-> \E i \in 1..Len(tags) : tags[i] = latest]

NoInfo == [repo_name |-> <<>>, digest |-> <<>>, last_pull_time |-> NoTime,
           size_bytes |-> 0, tags |-> <<>>, is_latest |-> FALSE]

\* what one process_artifact call did: its return value (some/info), whether
\* it got a detail record, and its increments of artifacts_checked and errors
Outcome(some, info, details, checked, errors) ==
    [some |-> some, info |-> info, details |-> details,
     checked |-> checked, errors |-> errors]

\* variant: without the is_artifact_old test
process_artifact_IgnoreAge(repo_name, artifact, outs) ==
    IF ~artifact.has_digest
    THEN Outcome(FALSE, NoInfo, NoDetails, 0, 1)
    ELSE LET details == get_artifact_details(repo_name, artifact.digest, outs)
             d       == details.json
         IN  IF ~details.some \/ d.shape = "empty"
             THEN Outcome(FALSE, NoInfo, details, 0, 0)
             ELSE LET skip == should_skip_artifact(repo_name, d)
                  IN  IF skip.exc THEN Outcome(FALSE, NoInfo, details, 1, 1)
                      ELSE IF skip.val THEN Outcome(FALSE, NoInfo, details, 1, 0)
                      ELSE IF get_last_pull_time(d).kind = "raise"
                           THEN Outcome(FALSE, NoInfo, details, 1, 1)
                      ELSE Outcome(TRUE, ArtifactInfo(repo_name, artifact.digest, d),
                                   details, 1, 0)

process_artifact(repo_name, artifact, outs) ==
    IF ~artifact.has_digest
    THEN Outcome(FALSE, NoInfo, NoDetails, 0, 1)            \* KeyError, caught
    ELSE LET details == get_artifact_details(repo_name, artifact.digest, outs)
             d       == details.json
         IN  IF ~details.some \/ d.shape = "empty"           \* if not details
             THEN Outcome(FALSE, NoInfo, details, 0, 0)
             ELSE LET skip == should_skip_artifact(repo_name, d)
                      old  == is_artifact_old(d)
                  IN  IF skip.exc THEN Outcome(FALSE, NoInfo, details, 1, 1)
                      ELSE IF skip.val THEN Outcome(FALSE, NoInfo, details, 1, 0)
                      ELSE IF old.exc THEN Outcome(FALSE, NoInfo, details, 1, 1)
                      ELSE IF ~old.val THEN Outcome(FALSE, NoInfo, details, 1, 0)
                      ELSE Outcome(TRUE, ArtifactInfo(repo_name, artifact.digest, d),
                                   details, 1, 0)

\* variant: only 'cdp' is looked for
InScope_CdpOnly(repo_name) == Contains(repo_name, <<"c","d","p">>)

\* 'cdp' in repo_name or 'sdp' in repo_name
InScope(repo_name) ==
    Contains(repo_name, <<"c","d","p">>) \/ Contains(repo_name, <<"s","d","p">>)

\* filtered_repos of cleanup()
RECURSIVE FilterRepos(_)
FilterRepos(repositories) ==
    IF repositories = <<>> THEN <<>>
    ELSE (IF InScope(ShortName(Head(repositories))) THEN <<Head(repositories)>> ELSE <<>>)
         \o FilterRepos(Tail(repositories))

\* variant: without the limit of five threads
artifact_workers_NoCap(n) == IF n < 1 THEN 1 ELSE n

\* artifact_workers of process_repository
ArtifactWorkerCap == 5
artifact_workers(n) ==
    LET m == IF ArtifactWorkerCap < n THEN ArtifactWorkerCap ELSE n
    IN  IF m < 1 THEN 1 ELSE m

\* a process_artifact future
QueuedArtifact == [st |-> "queued", out |-> Outcome(FALSE, NoInfo, NoDetails, 0, 0)]

\* a process_repository future of cleanup's executor
\* errors, processed and counted are what this process_repository call added
\* to errors, repositories_processed and artifacts_to_delete of self._stats
QueuedRepo(name) ==
    [st |-> "queued", repo_name |-> ShortName(name), listed |-> FALSE,
     exc |-> "none", artifacts |-> <<>>, artW |-> <<>>, artifacts_to_delete |-> <<>>,
     errors |-> 0, processed |-> 0, counted |-> 0]

\* variant: repositories_processed is counted on the way out of the handler too
ListingFailed_CountsProcessed(w, exc) ==
    [w EXCEPT !.st = "returned", !.exc = exc, !.errors = 1, !.processed = 1]

\* `except Exception` of process_repository after get_artifacts raised: one
\* error is counted and the still empty artifacts_to_delete is returned
ListingFailed(w, exc) ==
    [w EXCEPT !.st = "returned", !.exc = exc, !.errors = 1]

\* variant: a repository with candidates adds one to artifacts_to_delete
ListingScanned_CountsRepositories(w) ==
    [w EXCEPT !.st = "returned", !.processed = 1,
              !.counted = IF w.artifacts_to_delete = <<>> THEN 0 ELSE 1]

\* the end of process_repository's try block: the two counters are updated
\* under the lock and the list is returned
ListingScanned(w) ==
    [w EXCEPT !.st = "returned", !.processed = 1,
              !.counted = Len(w.artifacts_to_delete)]

\* self._stats after a process_repository call has returned as w
RepoCounted(w) ==
    [stats EXCEPT !.errors = @ + w.errors,
                  !.repositories_processed = @ + w.processed,
                  !.artifacts_to_delete = @ + w.counted]

\* variant: a future without a result ends the collection of the repository
AsCompleted_FailureClears(list, out) ==
    IF out.some THEN Append(list, out.info)
    ELSE IF out.errors > 0 \/ ~out.details.some THEN <<>>
    ELSE list

\* the as_completed loop of process_repository: `if result: append(result)`
AsCompleted(list, out) == IF out.some THEN Append(list, out.info) ELSE list

\* variant: the merged list is replaced by the list of the last future
MergeRepo_Overwrite(all, list) == list

\* the as_completed loop of cleanup(): all_artifacts_to_delete.extend(...)
MergeRepo(all, list) == all \o list

Running(workers, state) == { i \in 1..Len(workers) : workers[i].st = state }

-----------------------------------------------------------------------------
(* Delete / dry-run phase *)

\* f"{artifact.repo_name}:{artifact.digest}"
Key(artifact) == artifact.repo_name \o <<":">> \o artifact.digest

RECURSIVE UniqueList(_)
\* list(unique_artifacts.values()): one entry per key, at the place of the
\* key's first insertion, holding the key's last value
UniqueList(list) ==
    IF list = <<>> THEN <<>>
    ELSE LET n    == Len(list)
             last == list[n]
             rest == UniqueList(SubSeq(list, 1, n - 1))
         IN  IF \E i \in 1..Len(rest) : Key(rest[i]) = Key(last)
             THEN [i \in 1..Len(rest) |->
                      IF Key(rest[i]) = Key(last) THEN last ELSE rest[i]]
             ELSE Append(rest, last)

\* variant: the quotient is rounded up
batch_size_RoundedUp(total, mw) == (total + mw - 1) \div mw

\* batch_size = max(1, len(artifacts_to_delete) // self.max_workers)
batch_size(total, mw) == IF total \div mw < 1 THEN 1 ELSE total \div mw

RECURSIVE Slices_FullOnly(_, _)
\* variant: range(0, len(list) - size + 1, size), the short last slice is lost
Slices_FullOnly(list, size) ==
    IF Len(list) < size THEN <<>>
    ELSE <<SubSeq(list, 1, size)>>
         \o Slices_FullOnly(SubSeq(list, size + 1, Len(list)), size)

RECURSIVE Slices(_, _)
\* [list[i:i + size] for i in range(0, len(list), size)]
Slices(list, size) ==
    IF list = <<>> THEN <<>>
    ELSE IF Len(list) <= size THEN <<list>>
    ELSE <<SubSeq(list, 1, size)>> \o Slices(SubSeq(list, size + 1, Len(list)), size)

RECURSIVE SumSizes(_)
\* sum(artifact.size_bytes for artifact in list)
SumSizes(list) ==
    IF list = <<>> THEN 0 ELSE Head(list).size_bytes + SumSizes(Tail(list))

\* deleted_size_mb of cleanup(), in bytes:
\* sum(size_bytes for a in all if artifacts_deleted > 0)
\*   * (artifacts_deleted / len(all))
EstimatedSizeFreed(all, artifacts_deleted) ==
    [some |-> TRUE,
     num  |-> (IF artifacts_deleted > 0 THEN SumSizes(all) ELSE 0) * artifacts_deleted,
     den  |-> Len(all)]

\* a delete_artifacts_batch future; attempted is the entries its loop has
\* passed to delete_artifact so far, in the order of the calls
QueuedBatch == [st |-> "queued", next |-> 1, deleted_count |-> 0, attempted |-> <<>>]

\* variant: the loop is left at the first delete that fails
BatchStep_StopsOnFailure(w, batch, ok) ==
    [w EXCEPT !.next = IF ok THEN @ + 1 ELSE Len(batch) + 1,
              !.deleted_count = IF ok THEN @ + 1 ELSE @,
              !.attempted = Append(@, batch[w.next])]

\* one pass of `for artifact in batch: if self.delete_artifact(...): deleted_count += 1`
BatchStep(w, batch, ok) ==
    [w EXCEPT !.next = @ + 1,
              !.deleted_count = IF ok THEN @ + 1 ELSE @,
              !.attempted = Append(@, batch[w.next])]

-----------------------------------------------------------------------------
(* The run: cleanup() *)

ZeroStats == [repositories_processed |-> 0, artifacts_checked |-> 0,
              artifacts_deleted |-> 0, artifacts_to_delete |-> 0, errors |-> 0]

\* rq before any call: the position in make_api_request, the loop's locals,
\* the outcomes and sleeps of the call so far, what the caller received, and
\* the finished calls
\* no scan is stepped through its lock, no policy evaluation is under way
IdleLk == [holder |-> <<0, 0>>, threads |-> <<>>]
IdlePol == [pc |-> "idle"]
IdleBt == [pc |-> "idle"]
IdlePg == [pc |-> "idle"]
IdlePm == [pc |-> "idle"]

\* deleted_size_mb before cleanup() has computed it: the figure is the
\* quotient num / den of byte counts (the log line divides it by 1024 * 1024)
NoFigure == [some |-> FALSE, num |-> 0, den |-> 1]

IdleRq == [pc |-> "idle", attempt |-> 0, retry_delay |-> 1, outcomes |-> <<>>,
           slept |-> <<>>, result |-> "none", calls |-> 0, history |-> <<>>]

Init ==
    /\ dry_run \in BOOLEAN
    /\ max_workers \in 1..MaxWorkers
    /\ registry \in Registries
    /\ phase = "start"
    /\ filtered_repos = <<>>
    /\ repoW = <<>>
    /\ all_artifacts_to_delete = <<>>
    /\ stats = ZeroStats
    /\ batches = <<>>
    /\ batchW = <<>>
    /\ total_deleted = 0
    /\ unique_list = <<>>
    /\ deleteCalls = EmptyBag
    /\ deleteRequests = 0
    /\ sslSeen = FALSE
    /\ topError = "none"
    /\ requested = {}
    /\ deleteOk = 0
    /\ freedBytes = 0
    /\ deleted_size = NoFigure
    /\ rq = IdleRq
    /\ lk = IdleLk
    /\ pol = IdlePol
    /\ bt = IdleBt
    /\ pg = IdlePg
    /\ pm = IdlePm

\* cleanup() up to the submission of the repository futures; an exception of
\* get_repositories leaves cleanup()
CleanupStart ==
    /\ phase = "start"
    /\ \E pageOuts \in [1..PagesNeeded(Len(registry.repos), page_size) -> OutcomeSeqs] :
         LET repositories == get_repositories(pageOuts)
         IN  /\ sslSeen' = (sslSeen \/ repositories.status = "SSLError")
             /\ IF repositories.status = "ok"
                THEN /\ filtered_repos' = FilterRepos(repositories.items)
                     /\ repoW' = [i \in 1..Len(filtered_repos') |->
                                     QueuedRepo(filtered_repos'[i])]
                     /\ phase' = "scan"
                     /\ topError' = topError
                ELSE /\ phase' = "aborted"
                     /\ topError' = repositories.status
                     /\ UNCHANGED <<filtered_repos, repoW>>
    /\ UNCHANGED <<cfgVars, all_artifacts_to_delete, stats, batches, batchW,
                   total_deleted, unique_list, deleteCalls, deleteRequests, requested, deleteOk,
                   freedBytes, deleted_size,
                   auxVars>>

\* a thread of cleanup's executor takes process_repository(repo) and runs it
\* up to the submission of the artifact futures, or to its return when the
\* repository is filtered out or get_artifacts raises
RepoStart(r) ==
    /\ repoW[r].st = "queued"
    /\ Cardinality(Running(repoW, "scanning")) < max_workers
    /\ LET repo_name == repoW[r].repo_name
       IN  IF ~InScope(repo_name)
           THEN /\ repoW' = [repoW EXCEPT ![r].st = "returned"]
                /\ UNCHANGED <<stats, sslSeen, requested>>
           ELSE \E pageOuts \in [1..PagesNeeded(Len(registry.artifacts[repo_name]),
                                                page_size) -> OutcomeSeqs] :
                  LET artifacts == get_artifacts(repo_name, pageOuts)
                  IN  /\ sslSeen' = (sslSeen \/ artifacts.status = "SSLError")
                      /\ requested' = requested \cup {<<"list", repo_name>>}
                      /\ IF artifacts.status = "ok"
                         THEN /\ repoW' = [repoW EXCEPT
                                   ![r].st = "scanning",
                                   ![r].listed = TRUE,
                                   ![r].artifacts = artifacts.items,
                                   ![r].artW = [i \in 1..Len(artifacts.items) |->
                                                   QueuedArtifact]]
                              /\ stats' = stats
                         ELSE /\ repoW' = [repoW EXCEPT
                                   ![r] = ListingFailed(@, artifacts.status)]
                              /\ stats' = RepoCounted(repoW'[r])
    /\ UNCHANGED <<cfgVars, phase, filtered_repos, all_artifacts_to_delete, batches,
                   batchW, total_deleted, unique_list, deleteCalls, deleteRequests,
                   topError, deleteOk, freedBytes, deleted_size,
                   auxVars>>

\* a thread of the repository's executor takes process_artifact(repo_name, artifact)
ArtifactStart(r, i) ==
    /\ repoW[r].st = "scanning"
    /\ repoW[r].artW[i].st = "queued"
    /\ Cardinality(Running(repoW[r].artW, "running"))
         < artifact_workers(Len(repoW[r].artifacts))
    /\ repoW' = [repoW EXCEPT ![r].artW[i].st = "running"]
    /\ UNCHANGED <<cfgVars, phase, filtered_repos, all_artifacts_to_delete, stats,
                   batches, batchW, total_deleted, unique_list, deleteCalls,
                   deleteRequests, sslSeen, topError, requested,
                   deleteOk, freedBytes, deleted_size,
                   auxVars>>

\* process_artifact runs to its return, and the repository's as_completed
\* loop appends its result
ArtifactRun(r, i) ==
    /\ repoW[r].st = "scanning"
    /\ repoW[r].artW[i].st = "running"
    /\ \E outs \in OutcomeSeqs :
         LET out == process_artifact(repoW[r].repo_name, repoW[r].artifacts[i], outs)
         IN  /\ repoW' = [repoW EXCEPT
                   ![r].artW[i] = [st |-> "done", out |-> out],
                   ![r].artifacts_to_delete = AsCompleted(@, out)]
             /\ requested' = IF repoW[r].artifacts[i].has_digest
                              THEN requested \cup {<<"details", repoW[r].repo_name>>}
                              ELSE requested
             /\ stats' = [stats EXCEPT !.artifacts_checked = @ + out.checked,
                                       !.errors = @ + out.errors]
             /\ sslSeen' = (sslSeen \/ out.details.exc = "SSLError")
    /\ UNCHANGED <<cfgVars, phase, filtered_repos, all_artifacts_to_delete, batches,
                   batchW, total_deleted, unique_list, deleteCalls, deleteRequests,
                   topError, deleteOk, freedBytes, deleted_size,
                   auxVars>>

\* the repository's executor has run every future: process_repository updates
\* the counters and returns, and cleanup's as_completed loop merges its list
RepoFinish(r) ==
    /\ repoW[r].st = "scanning"
    /\ \A i \in 1..Len(repoW[r].artW) : repoW[r].artW[i].st = "done"
    /\ repoW' = [repoW EXCEPT ![r] = ListingScanned(@)]
    /\ stats' = RepoCounted(repoW'[r])
    /\ all_artifacts_to_delete' =
           MergeRepo(all_artifacts_to_delete, repoW[r].artifacts_to_delete)
    /\ UNCHANGED <<cfgVars, phase, filtered_repos, batches, batchW, total_deleted,
                   unique_list, deleteCalls, deleteRequests, sslSeen, topError, 
                   requested, deleteOk, freedBytes, deleted_size,
                   auxVars>>

\* variant: the scan is left as soon as one future has returned
ScanJoined_FirstCompleted ==
    repoW = <<>> \/ \E r \in 1..Len(repoW) : repoW[r].st = "returned"

\* the `with ThreadPoolExecutor` block of the scan is left: every submitted
\* process_repository future has returned and been merged
ScanJoined == \A r \in 1..Len(repoW) : repoW[r].st = "returned"

\* variant: the dry-run test is lost
TakesDisplayBranch_Never == FALSE

\* `if self.dry_run:` of cleanup()
TakesDisplayBranch == dry_run

\* cleanup() from the end of the scan: _display_dry_run_results, or
\* _delete_artifacts_parallel up to the submission of the batch futures
HandleResults ==
    /\ phase = "scan"
    /\ ScanJoined
    /\ IF TakesDisplayBranch
       THEN /\ unique_list' = UniqueList(all_artifacts_to_delete)
            /\ phase' = "done"
            /\ UNCHANGED <<batches, batchW>>
       ELSE IF all_artifacts_to_delete = <<>>
       THEN /\ phase' = "done"
            /\ UNCHANGED <<batches, batchW, unique_list>>
       ELSE /\ batches' = Slices(all_artifacts_to_delete,
                                 batch_size(Len(all_artifacts_to_delete), max_workers))
            /\ batchW' = [b \in 1..Len(batches') |-> QueuedBatch]
            /\ phase' = "delete"
            /\ UNCHANGED unique_list
    /\ UNCHANGED <<cfgVars, filtered_repos, repoW, all_artifacts_to_delete, stats,
                   total_deleted, deleteCalls, deleteRequests, sslSeen, topError, 
                   requested, deleteOk, freedBytes, deleted_size,
                   auxVars>>

\* a thread of the delete executor takes delete_artifacts_batch(batch)
BatchStart(b) ==
    /\ batchW[b].st = "queued"
    /\ Cardinality(Running(batchW, "running")) < max_workers
    /\ batchW' = [batchW EXCEPT ![b].st = "running"]
    /\ UNCHANGED <<cfgVars, phase, filtered_repos, repoW, all_artifacts_to_delete,
                   stats, batches, total_deleted, unique_list, deleteCalls,
                   deleteRequests, sslSeen, topError, requested,
                   deleteOk, freedBytes, deleted_size,
                   auxVars>>

\* one iteration of the loop of delete_artifacts_batch
BatchDelete(b) ==
    /\ batchW[b].st = "running"
    /\ batchW[b].next <= Len(batches[b])
    /\ \E outs \in OutcomeSeqs :
         LET artifact == batches[b][batchW[b].next]
             deleted  == delete_artifact(dry_run, outs)
         IN  /\ deleteCalls' = deleteCalls (+)
                    SetToBag({<<artifact.repo_name, artifact.digest>>})
             /\ deleteRequests' = deleteRequests + deleted.requests
             /\ sslSeen' = (sslSeen \/ deleted.exc = "SSLError")
             /\ requested' = IF deleted.requests > 0
                              THEN requested \cup {<<"delete", artifact.repo_name>>}
                              ELSE requested
             /\ deleteOk' = IF deleted.ok THEN deleteOk + 1 ELSE deleteOk
             /\ freedBytes' = IF deleted.ok THEN freedBytes + artifact.size_bytes
                              ELSE freedBytes
             /\ batchW' = [batchW EXCEPT ![b] = BatchStep(@, batches[b], deleted.ok)]
    /\ UNCHANGED <<cfgVars, phase, filtered_repos, repoW, all_artifacts_to_delete,
                   stats, batches, total_deleted, unique_list, topError, deleted_size,
                   auxVars>>

\* delete_artifacts_batch returns, and the as_completed loop of
\* _delete_artifacts_parallel adds its count
BatchFinish(b) ==
    /\ batchW[b].st = "running"
    /\ batchW[b].next > Len(batches[b])
    /\ batchW' = [batchW EXCEPT ![b].st = "done"]
    /\ total_deleted' = total_deleted + batchW[b].deleted_count
    /\ UNCHANGED <<cfgVars, phase, filtered_repos, repoW, all_artifacts_to_delete,
                   stats, batches, unique_list, deleteCalls, deleteRequests, sslSeen,
                   topError, requested, deleteOk, freedBytes, deleted_size,
                   auxVars>>

\* the delete executor is left: _delete_artifacts_parallel stores the total,
\* and cleanup() goes on to its final statistics
DeleteJoin ==
    /\ phase = "delete"
    /\ \A b \in 1..Len(batchW) : batchW[b].st = "done"
    /\ stats' = [stats EXCEPT !.artifacts_deleted = total_deleted]
    /\ deleted_size' = EstimatedSizeFreed(all_artifacts_to_delete,
                                          stats'.artifacts_deleted)
    /\ phase' = "done"
    /\ UNCHANGED <<cfgVars, filtered_repos, repoW, all_artifacts_to_delete, batches,
                   batchW, total_deleted, unique_list, deleteCalls, deleteRequests,
                   sslSeen, topError, requested, deleteOk, freedBytes,
                   auxVars>>

Next ==
    \/ CleanupStart
    \/ \E r \in 1..Len(repoW) : RepoStart(r)
    \/ \E r \in 1..Len(repoW) : \E i \in 1..Len(repoW[r].artW) : ArtifactStart(r, i)
    \/ \E r \in 1..Len(repoW) : \E i \in 1..Len(repoW[r].artW) : ArtifactRun(r, i)
    \/ \E r \in 1..Len(repoW) : RepoFinish(r)
    \/ HandleResults
    \/ \E b \in 1..Len(batchW) : BatchStart(b)
    \/ \E b \in 1..Len(batchW) : BatchDelete(b)
    \/ \E b \in 1..Len(batchW) : BatchFinish(b)
    \/ DeleteJoin

Spec == Init /\ [][Next]_vars

\* The run under fair scheduling: the interpreter and the executors run a
\* thread that can take a step, and every request returns or times out, so
\* a run does not stop while one of its steps is possible.
SpecFair == Init /\ [][Next]_vars /\ WF_vars(Next)

-----------------------------------------------------------------------------
(* The run against a registry that fills the thread pools *)

PoolInit ==
    /\ dry_run \in BOOLEAN
    /\ max_workers \in 1..MaxWorkers
    /\ registry \in PoolRegistries
    /\ phase = "start"
    /\ filtered_repos = <<>>
    /\ repoW = <<>>
    /\ all_artifacts_to_delete = <<>>
    /\ stats = ZeroStats
    /\ batches = <<>>
    /\ batchW = <<>>
    /\ total_deleted = 0
    /\ unique_list = <<>>
    /\ deleteCalls = EmptyBag
    /\ deleteRequests = 0
    /\ sslSeen = FALSE
    /\ topError = "none"
    /\ requested = {}
    /\ deleteOk = 0
    /\ freedBytes = 0
    /\ deleted_size = NoFigure
    /\ rq = IdleRq
    /\ lk = IdleLk
    /\ pol = IdlePol
    /\ bt = IdleBt
    /\ pg = IdlePg
    /\ pm = IdlePm

SpecPool == PoolInit /\ [][Next]_vars

-----------------------------------------------------------------------------
(* The scan with every update of self._stats stepped through self._lock *)

\* A thread is <<r, 0>>, the process_repository call of filtered_repos[r], or
\* <<r, i>>, the process_artifact call of its i-th artifact.  todo is the
\* sequence of `with self._lock` blocks the thread has still to run, each
\* the sequence of its `self._stats[field] += n` statements.
NoThread == <<0, 0>>

LkArtifact ==
    [pc |-> "queued", todo |-> <<>>, loaded |-> 0,
     out |-> Outcome(FALSE, NoInfo, NoDetails, 0, 0)]

LkRepo(name) ==
    [pc |-> "queued", todo |-> <<>>, loaded |-> 0, repo_name |-> ShortName(name),
     listed |-> FALSE, exc |-> "none", artifacts |-> <<>>, art |-> <<>>]

Add(field, n) == [field |-> field, n |-> n]

ThreadIds ==
    UNION { {<<r, 0>>} \cup { <<r, i>> : i \in 1..Len(lk.threads[r].art) }
            : r \in 1..Len(lk.threads) }

ThreadOf(id) ==
    IF id[2] = 0 THEN lk.threads[id[1]] ELSE lk.threads[id[1]].art[id[2]]

WithThread(id, th) ==
    IF id[2] = 0 THEN [lk.threads EXCEPT ![id[1]] = th]
    ELSE [lk.threads EXCEPT ![id[1]].art[id[2]] = th]

\* the thread has started and has no statement left to run
Finished(th) == th.pc = "work" /\ th.todo = <<>>

\* the `with self._lock` blocks of one process_artifact call, in program order
ArtifactBlocks(out) ==
    (IF out.checked = 1 THEN << <<Add("artifacts_checked", 1)>> >> ELSE <<>>)
    \o (IF out.errors = 1 THEN << <<Add("errors", 1)>> >> ELSE <<>>)

\* variant: the updates are made without taking the lock
LockFree_Always == TRUE

\* self._lock can be acquired
LockFree == lk.holder = NoThread

LockInit ==
    /\ dry_run = FALSE
    /\ max_workers \in 1..MaxWorkers
    /\ registry \in {RegistryB, RegistryC, RegistryD}
    /\ phase = "scan"
    /\ filtered_repos = FilterRepos(registry.repos)
    /\ repoW = <<>>
    /\ all_artifacts_to_delete = <<>>
    /\ stats = ZeroStats
    /\ batches = <<>>
    /\ batchW = <<>>
    /\ total_deleted = 0
    /\ unique_list = <<>>
    /\ deleteCalls = EmptyBag
    /\ deleteRequests = 0
    /\ sslSeen = FALSE
    /\ topError = "none"
    /\ requested = {}
    /\ deleteOk = 0
    /\ freedBytes = 0
    /\ deleted_size = NoFigure
    /\ rq = IdleRq
    /\ lk = [holder |-> NoThread,
             threads |-> [r \in 1..Len(filtered_repos) |-> LkRepo(filtered_repos[r])]]
    /\ pol = IdlePol
    /\ bt = IdleBt
    /\ pg = IdlePg
    /\ pm = IdlePm

lockFrame == <<cfgVars, phase, filtered_repos, repoW, all_artifacts_to_delete,
               batches, batchW, total_deleted, unique_list, deleteCalls,
               deleteRequests, sslSeen, topError, requested, deleteOk, rq, pol,
               bt, pg, pm, freedBytes, deleted_size>>

\* process_repository up to the submission of its artifacts, or into its
\* exception handler when get_artifacts raises
LkRepoStart(r) ==
    /\ lk.threads[r].pc = "queued"
    /\ Cardinality({ q \in 1..Len(lk.threads) :
                       lk.threads[q].pc # "queued" /\ ~Finished(lk.threads[q]) })
          < max_workers
    /\ \E pageOuts \in [1..PagesNeeded(Len(registry.artifacts[lk.threads[r].repo_name]),
                                        page_size) -> OutcomeSeqs] :
          LET th        == lk.threads[r]
              artifacts == get_artifacts(th.repo_name, pageOuts)
          IN  lk' = [lk EXCEPT !.threads[r] =
                       IF artifacts.status = "ok"
                       THEN [th EXCEPT !.pc = "waiting", !.listed = TRUE,
                                       !.artifacts = artifacts.items,
                                       !.art = [i \in 1..Len(artifacts.items) |->
                                                   LkArtifact]]
                       ELSE [th EXCEPT !.pc = "work", !.exc = artifacts.status,
                                       !.todo = << <<Add("errors", 1)>> >>]]
    /\ UNCHANGED <<stats, lockFrame>>

\* process_artifact up to its first `with self._lock`, its result computed
LkArtifactRun(r, i) ==
    /\ lk.threads[r].pc = "waiting"
    /\ lk.threads[r].art[i].pc = "queued"
    /\ Cardinality({ j \in 1..Len(lk.threads[r].art) :
                       /\ lk.threads[r].art[j].pc # "queued"
                       /\ ~Finished(lk.threads[r].art[j]) })
          < artifact_workers(Len(lk.threads[r].artifacts))
    /\ \E outs \in OutcomeSeqs :
          LET out == process_artifact(lk.threads[r].repo_name,
                                      lk.threads[r].artifacts[i], outs)
          IN  lk' = [lk EXCEPT !.threads[r].art[i] =
                       [pc |-> "work", todo |-> ArtifactBlocks(out),
                        loaded |-> 0, out |-> out]]
    /\ UNCHANGED <<stats, lockFrame>>

\* the repository's executor is left: process_repository reaches its own
\* `with self._lock`
LkRepoFinish(r) ==
    /\ lk.threads[r].pc = "waiting"
    /\ \A i \in 1..Len(lk.threads[r].art) : Finished(lk.threads[r].art[i])
    /\ lk' = [lk EXCEPT
                !.threads[r].pc = "work",
                !.threads[r].todo =
                    << << Add("repositories_processed", 1),
                          Add("artifacts_to_delete",
                              Cardinality({ i \in 1..Len(lk.threads[r].art) :
                                              lk.threads[r].art[i].out.some })) >> >>]
    /\ UNCHANGED <<stats, lockFrame>>

\* `with self._lock:` is entered
LockAcquire(id) ==
    /\ ThreadOf(id).pc = "work"
    /\ ThreadOf(id).todo # <<>>
    /\ LockFree
    /\ lk' = [holder |-> id,
              threads |-> WithThread(id, [ThreadOf(id) EXCEPT !.pc = "load"])]
    /\ UNCHANGED <<stats, lockFrame>>

\* self._stats[field] += n, first half: the value is read
StatLoad(id) ==
    /\ ThreadOf(id).pc = "load"
    /\ lk' = [lk EXCEPT !.threads = WithThread(id,
                 [ThreadOf(id) EXCEPT
                     !.pc = "store",
                     !.loaded = stats[Head(Head(ThreadOf(id).todo)).field]])]
    /\ UNCHANGED <<stats, lockFrame>>

\* self._stats[field] += n, second half: the sum is written; after the last
\* statement of the block the lock is released
StatStore(id) ==
    /\ ThreadOf(id).pc = "store"
    /\ LET th    == ThreadOf(id)
           block == Head(th.todo)
       IN  /\ stats' = [stats EXCEPT ![Head(block).field] = th.loaded + Head(block).n]
           /\ IF Len(block) > 1
              THEN lk' = [lk EXCEPT !.threads = WithThread(id,
                            [th EXCEPT !.pc = "load",
                                       !.todo = <<Tail(block)>> \o Tail(th.todo)])]
              ELSE lk' = [holder  |-> NoThread,
                          threads |-> WithThread(id,
                            [th EXCEPT !.pc = "work", !.todo = Tail(th.todo)])]
    /\ UNCHANGED lockFrame

LockNext ==
    \/ \E r \in 1..Len(lk.threads) : LkRepoStart(r)
    \/ \E id \in ThreadIds : id[2] # 0 /\ LkArtifactRun(id[1], id[2])
    \/ \E r \in 1..Len(lk.threads) : LkRepoFinish(r)
    \/ \E id \in ThreadIds : LockAcquire(id)
    \/ \E id \in ThreadIds : StatLoad(id)
    \/ \E id \in ThreadIds : StatStore(id)

SpecLock == LockInit /\ [][LockNext]_vars

-----------------------------------------------------------------------------
(* The retention policy on one detail record *)

\* what a timestamp field of a detail record can hold
TimeFields == {Absent, Null, Empty, Bad} \cup { At(t) : t \in 0..MaxTime }

\* what details['extra_attrs'] can hold
ExtraFields == {NoExtra, NullExtra} \cup { Extra(created) : created \in TimeFields }

\* tags: null, one plain tag, one protected tag
PolicyTags == { TagsNone, TagList(<<Tag(v1)>>), TagList(<<Tag(latest)>>) }

PolicyDetails ==
    { Details(tags, pull, push, extra, 1) :
        tags \in PolicyTags, pull \in TimeFields, push \in TimeFields,
        extra \in ExtraFields }

PolicyInit ==
    /\ dry_run = FALSE
    /\ max_workers = 1
    /\ registry = RegistryA
    /\ phase = "start"
    /\ filtered_repos = <<>>
    /\ repoW = <<>>
    /\ all_artifacts_to_delete = <<>>
    /\ stats = ZeroStats
    /\ batches = <<>>
    /\ batchW = <<>>
    /\ total_deleted = 0
    /\ unique_list = <<>>
    /\ deleteCalls = EmptyBag
    /\ deleteRequests = 0
    /\ sslSeen = FALSE
    /\ topError = "none"
    /\ requested = {}
    /\ deleteOk = 0
    /\ freedBytes = 0
    /\ deleted_size = NoFigure
    /\ rq = IdleRq
    /\ lk = IdleLk
    /\ pol \in { [pc |-> "input", repo_name |-> repo_name, details |-> d,
                   skip |-> Val(FALSE), last |-> NoTime, old |-> Val(FALSE)] :
                    repo_name \in {svc_cdp, old_sdp}, d \in PolicyDetails }
    /\ bt = IdleBt
    /\ pg = IdlePg
    /\ pm = IdlePm

\* should_skip_artifact, get_last_pull_time and is_artifact_old are called
\* on the record
PolicyEvaluate ==
    /\ pol.pc = "input"
    /\ pol' = [pol EXCEPT
                 !.pc   = "evaluated",
                 !.skip = should_skip_artifact(pol.repo_name, pol.details),
                 !.last = get_last_pull_time(pol.details),
                 !.old  = is_artifact_old(pol.details)]
    /\ UNCHANGED <<cfgVars, runVars, rq, lk, bt, pg, pm>>

PolicyNext == PolicyEvaluate

SpecPolicy == PolicyInit /\ [][PolicyNext]_vars

-----------------------------------------------------------------------------
(* The grouping of _delete_artifacts_parallel on one candidate list *)

Letters == <<"a","b","c","d","e","f","g","h","i","j","k","l","m",
             "n","o","p","q","r","s","t","u","v","w","x","y","z">>

\* a list of n candidates with different digests
CandidateList(n) ==
    [k \in 1..n |-> [NoInfo EXCEPT !.repo_name = svc_cdp,
                                   !.digest = Sha(Letters[k]),
                                   !.size_bytes = k]]

BatchInit ==
    /\ dry_run = FALSE
    /\ max_workers = 1
    /\ registry = RegistryA
    /\ phase = "start"
    /\ filtered_repos = <<>>
    /\ repoW = <<>>
    /\ all_artifacts_to_delete = <<>>
    /\ stats = ZeroStats
    /\ batches = <<>>
    /\ batchW = <<>>
    /\ total_deleted = 0
    /\ unique_list = <<>>
    /\ deleteCalls = EmptyBag
    /\ deleteRequests = 0
    /\ sslSeen = FALSE
    /\ topError = "none"
    /\ requested = {}
    /\ deleteOk = 0
    /\ freedBytes = 0
    /\ deleted_size = NoFigure
    /\ rq = IdleRq
    /\ lk = IdleLk
    /\ pol = IdlePol
    /\ bt \in { [pc |-> "input", artifacts_to_delete |-> CandidateList(n),
                  max_workers |-> mw, batches |-> <<>>] :
                   n \in 1..MaxTotal, mw \in 1..MaxBatchWorkers }
    /\ pg = IdlePg
    /\ pm = IdlePm

\* batch_size and batches of _delete_artifacts_parallel
GroupBatches ==
    /\ bt.pc = "input"
    /\ bt' = [bt EXCEPT
                !.pc = "batched",
                !.batches = Slices(bt.artifacts_to_delete,
                                   batch_size(Len(bt.artifacts_to_delete),
                                              bt.max_workers))]
    /\ UNCHANGED <<cfgVars, runVars, rq, lk, pol, pg, pm>>

BatchNext == GroupBatches

SpecBatch == BatchInit /\ [][BatchNext]_vars

-----------------------------------------------------------------------------
(* The tag-pattern test of should_skip_artifact on one pattern and one tag *)

\* the strings of at most n characters over an alphabet
Strings(alphabet, n) == UNION { [1..k -> alphabet] : k \in 0..n }

\* exclusions['tags_patterns'] comes from the configuration: any string
Patterns == Strings({"*", "a", "-"}, MaxNameLen)

\* tag names come from the registry, whose tags have no '*'; a tag entry
\* without a name reads as ''
TagNameStrings == Strings({"a", "-"}, MaxNameLen)

\* details['tags'] for the configured patterns rc-* and *-snap
PatternTags ==
    { TagsNone, TagList(<<>>), TagList(<<Tag(v1)>>), TagList(<<Tag(rc1)>>),
      TagList(<<Tag(<<"r","c">>)>>),
      TagList(<<Tag(v1), Tag(<<"a","-","s","n","a","p">>)>>),
      TagList(<<NotATag, Tag(rc1)>>), TagList(<<Tag(rc1), Tag(latest)>>) }

PatternInit ==
    /\ dry_run = FALSE
    /\ max_workers = 1
    /\ registry = RegistryA
    /\ phase = "start"
    /\ filtered_repos = <<>>
    /\ repoW = <<>>
    /\ all_artifacts_to_delete = <<>>
    /\ stats = ZeroStats
    /\ batches = <<>>
    /\ batchW = <<>>
    /\ total_deleted = 0
    /\ unique_list = <<>>
    /\ deleteCalls = EmptyBag
    /\ deleteRequests = 0
    /\ sslSeen = FALSE
    /\ topError = "none"
    /\ requested = {}
    /\ deleteOk = 0
    /\ freedBytes = 0
    /\ deleted_size = NoFigure
    /\ rq = IdleRq
    /\ lk = IdleLk
    /\ pol = IdlePol
    /\ bt = IdleBt
    /\ pg = IdlePg
    /\ pm \in { [pc |-> "input", pattern |-> pattern, tag_name |-> tag_name,
                  tags |-> tags, matches |-> FALSE, skip |-> Val(FALSE)] :
                   pattern \in Patterns, tag_name \in TagNameStrings,
                   tags \in PatternTags }

\* the two tests of the inner loop on (pattern, tag_name), and
\* should_skip_artifact on a record of a repository that is not excluded
PatternTest ==
    /\ pm.pc = "input"
    /\ pm' = [pm EXCEPT
                !.pc      = "tested",
                !.matches = PatternMatches(pm.pattern, pm.tag_name),
                !.skip    = should_skip_artifact(svc_cdp,
                               Details(pm.tags, At(5), At(4), NoExtra, 1))]
    /\ UNCHANGED <<cfgVars, runVars, rq, lk, pol, bt, pg>>

SpecPattern == PatternInit /\ [][PatternTest]_vars

-----------------------------------------------------------------------------
(* One listing (get_repositories / get_artifacts), page by page *)

\* The registry holds pg.items; the loop runs with pg.page_size in place of
\* the literal 100, so that listings of several pages stay small.
PageInit ==
    /\ dry_run = FALSE
    /\ max_workers = 1
    /\ registry = RegistryA
    /\ phase = "start"
    /\ filtered_repos = <<>>
    /\ repoW = <<>>
    /\ all_artifacts_to_delete = <<>>
    /\ stats = ZeroStats
    /\ batches = <<>>
    /\ batchW = <<>>
    /\ total_deleted = 0
    /\ unique_list = <<>>
    /\ deleteCalls = EmptyBag
    /\ deleteRequests = 0
    /\ sslSeen = FALSE
    /\ topError = "none"
    /\ requested = {}
    /\ deleteOk = 0
    /\ freedBytes = 0
    /\ deleted_size = NoFigure
    /\ rq = IdleRq
    /\ lk = IdleLk
    /\ pol = IdlePol
    /\ bt = IdleBt
    /\ pg \in { [pc |-> "loop", items |-> [k \in 1..n |-> k], page_size |-> ps,
                  page |-> 1, all |-> <<>>, pages |-> <<>>, outs |-> <<>>,
                  result |-> [status |-> "none", items |-> <<>>]] :
                   n \in 0..MaxItems, ps \in 1..MaxPageSize }
    /\ pm = IdlePm

\* one pass of the `while True` loop: the page is requested; the exception
\* of make_api_request leaves the function, an empty page or a short page
\* ends the loop, a full page leads to the next one
PageRequest(outs) ==
    /\ pg.pc = "loop"
    /\ LET response == make_api_request(outs)
           got      == PageOf(pg.items, pg.page_size, pg.page)
           asked    == [pg EXCEPT !.pages = Append(@, pg.page),
                                  !.outs = Append(@, outs)]
       IN  pg' = IF response.status # "ok"
                 THEN [asked EXCEPT !.pc = "raised",
                                    !.result = [status |-> response.status,
                                                items |-> <<>>]]
                 ELSE IF got = <<>>
                 THEN [asked EXCEPT !.pc = "returned",
                                    !.result = [status |-> "ok", items |-> pg.all]]
                 ELSE IF Len(got) < pg.page_size
                 THEN [asked EXCEPT !.pc = "returned",
                                    !.all = @ \o got,
                                    !.result = [status |-> "ok", items |-> pg.all \o got]]
                 ELSE [asked EXCEPT !.all = @ \o got, !.page = @ + 1]
    /\ UNCHANGED <<cfgVars, runVars, rq, lk, pol, bt, pm>>

PageNext == \E outs \in OutcomeSeqs : PageRequest(outs)

SpecPage == PageInit /\ [][PageNext]_vars

-----------------------------------------------------------------------------
(* One make_api_request call at a time, attempt by attempt *)

RetryInit ==
    /\ dry_run = FALSE
    /\ max_workers = 1
    /\ registry = RegistryA
    /\ phase = "start"
    /\ filtered_repos = <<>>
    /\ repoW = <<>>
    /\ all_artifacts_to_delete = <<>>
    /\ stats = ZeroStats
    /\ batches = <<>>
    /\ batchW = <<>>
    /\ total_deleted = 0
    /\ unique_list = <<>>
    /\ deleteCalls = EmptyBag
    /\ deleteRequests = 0
    /\ sslSeen = FALSE
    /\ topError = "none"
    /\ requested = {}
    /\ deleteOk = 0
    /\ freedBytes = 0
    /\ deleted_size = NoFigure
    /\ rq = IdleRq
    /\ lk = IdleLk
    /\ pol = IdlePol
    /\ bt = IdleBt
    /\ pg = IdlePg
    /\ pm = IdlePm

\* make_api_request is called: max_retries = 3, retry_delay = 1, the loop starts
RqCall ==
    /\ rq.pc \in {"idle", "returned", "raised", "fell_off"}
    /\ rq.calls < MaxCalls
    /\ rq' = [IdleRq EXCEPT
                !.pc = "request",
                !.calls = rq.calls + 1,
                !.history = IF rq.pc = "idle" THEN rq.history
                            ELSE Append(rq.history,
                                        [outcomes |-> rq.outcomes, pc |-> rq.pc,
                                         result |-> rq.result, slept |-> rq.slept])]
    /\ UNCHANGED <<cfgVars, runVars, lk, pol, bt, pg, pm>>

\* one pass of the try block: requests.request, raise_for_status, and the
\* handler the outcome selects
RqAttempt(o) ==
    /\ rq.pc = "request"
    /\ LET a == AfterAttempt(rq.attempt, o)
       IN  rq' = [rq EXCEPT
                    !.outcomes = Append(@, o),
                    !.pc = CASE a = "return" -> "returned"
                             [] a = "raise"  -> "raised"
                             [] OTHER        -> "sleeping",
                    !.result = CASE a = "return" -> "ok"
                                 [] a = "raise"  -> ExcOf(o)
                                 [] OTHER        -> @]
    /\ UNCHANGED <<cfgVars, runVars, lk, pol, bt, pg, pm>>

\* time.sleep(retry_delay); retry_delay *= 2; the for loop takes its next
\* value, or is exhausted and the function falls off its end
RqSleep ==
    /\ rq.pc = "sleeping"
    /\ rq' = [rq EXCEPT
                !.slept = Append(@, rq.retry_delay),
                !.retry_delay = @ * 2,
                !.attempt = @ + 1,
                !.pc = IF rq.attempt + 1 < max_retries THEN "request" ELSE "fell_off"]
    /\ UNCHANGED <<cfgVars, runVars, lk, pol, bt, pg, pm>>

RetryNext ==
    \/ RqCall
    \/ \E o \in Outcomes : RqAttempt(o)
    \/ RqSleep

SpecRetry == RetryInit /\ [][RetryNext]_vars

-----------------------------------------------------------------------------
(* Properties *)

\* the registry's detail record of a (repo_name, digest) pair
DetailsOf(pair) == registry.details[pair]

\* the (repo_name, digest) of a candidate
PairOf(artifact) == <<artifact.repo_name, artifact.digest>>

\* the finished process_artifact futures, as <<r, i>>
DoneArtifacts ==
    { ri \in UNION { {<<r, i>> : i \in 1..Len(repoW[r].artW)} : r \in 1..Len(repoW) } :
        repoW[ri[1]].artW[ri[2]].st = "done" }

OutOf(ri) == repoW[ri[1]].artW[ri[2]].out
SummaryOf(ri) == repoW[ri[1]].artifacts[ri[2]]
RepoNameOf(ri) == repoW[ri[1]].repo_name

\* the detail record carries at least one tag in protected_tags
HasProtectedTag(d) ==
    /\ d.shape = "dict"
    /\ d.tags.kind = "list"
    /\ \E i \in 1..Len(d.tags.items) :
          d.tags.items[i].dict /\ d.tags.items[i].name \in protected_tags

\* every candidate list of the run, at any stage
AllCandidateEntries ==
    { all_artifacts_to_delete[k] : k \in 1..Len(all_artifacts_to_delete) }
    \cup UNION { { repoW[r].artifacts_to_delete[k] :
                     k \in 1..Len(repoW[r].artifacts_to_delete) } : r \in 1..Len(repoW) }
    \cup UNION { { batches[b][k] : k \in 1..Len(batches[b]) } : b \in 1..Len(batches) }
    \cup { unique_list[k] : k \in 1..Len(unique_list) }

\* C1: an artifact whose detail record carries a protected tag is never
\* returned as a candidate by process_artifact, is in no candidate list, and
\* is never passed to delete_artifact, whatever its timestamps are.
C1_ProtectedNeverCandidate ==
    /\ \A ri \in DoneArtifacts :
          (OutOf(ri).details.some /\ HasProtectedTag(OutOf(ri).details.json))
             => ~OutOf(ri).some
    /\ \A a \in AllCandidateEntries : ~HasProtectedTag(DetailsOf(PairOf(a)))
    /\ \A pair \in BagToSet(deleteCalls) : ~HasProtectedTag(DetailsOf(pair))

\* a protected artifact that is old was scanned next to one that was deleted
C1_Witness ==
    /\ phase = "done" /\ ~dry_run /\ deleteRequests > 0
    /\ \E ri \in DoneArtifacts :
          /\ OutOf(ri).details.some
          /\ HasProtectedTag(OutOf(ri).details.json)
          /\ is_artifact_old(OutOf(ri).details.json) = Val(TRUE)

\* the two conditions of a deletion candidate, on the record a worker fetched
Eligible(repo_name, out) ==
    /\ out.details.some
    /\ should_skip_artifact(repo_name, out.details.json) = Val(FALSE)
    /\ is_artifact_old(out.details.json) = Val(TRUE)

\* number of entries of a list for a pair / of finished futures that
\* returned that pair
InList(list, pair) == Cardinality({ k \in 1..Len(list) : PairOf(list[k]) = pair })
Returned(pair) ==
    Cardinality({ ri \in DoneArtifacts :
                    OutOf(ri).some /\ PairOf(OutOf(ri).info) = pair })

\* C2: a scanned artifact is a candidate iff its details were fetched, it is
\* not skipped and it is old; the merged list holds exactly these, and every
\* delete_artifact call targets one of them.
C2_CandidateIffNotSkippedAndOld ==
    /\ \A ri \in DoneArtifacts :
          /\ OutOf(ri).some <=> Eligible(RepoNameOf(ri), OutOf(ri))
          /\ OutOf(ri).some =>
                PairOf(OutOf(ri).info) = <<RepoNameOf(ri), SummaryOf(ri).digest>>
    /\ phase \in {"delete", "done"} =>
          \A pair \in DOMAIN registry.details :
             InList(all_artifacts_to_delete, pair) = Returned(pair)
    /\ \A pair \in BagToSet(deleteCalls) :
          \E ri \in DoneArtifacts :
             /\ OutOf(ri).some
             /\ Eligible(RepoNameOf(ri), OutOf(ri))
             /\ PairOf(OutOf(ri).info) = pair

\* an execute run has deleted a candidate and kept a fetched artifact that is
\* not skipped but not old
C2_Witness ==
    /\ phase = "done" /\ ~dry_run /\ deleteRequests > 0
    /\ \E ri \in DoneArtifacts :
          /\ OutOf(ri).details.some
          /\ should_skip_artifact(RepoNameOf(ri), OutOf(ri).details.json) = Val(FALSE)
          /\ is_artifact_old(OutOf(ri).details.json) = Val(FALSE)
          /\ ~OutOf(ri).some

\* C3: in execute mode delete_artifact is invoked at most once per
\* (repository_name, digest), even when the listing returned a digest twice.
C3_DeleteAtMostOncePerPair ==
    \A pair \in BagToSet(deleteCalls) : CopiesIn(pair, deleteCalls) <= 1

\* C4: in a dry run cleanup takes the display branch, no delete batch runs,
\* delete_artifact is not called and no DELETE request is sent.
C4_DryRunSendsNoDelete ==
    dry_run => /\ deleteRequests = 0
               /\ deleteCalls = EmptyBag
               /\ phase # "delete"
               /\ batchW = <<>>

\* a dry run has displayed a non-empty candidate list
C4_Witness ==
    dry_run /\ phase = "done" /\ unique_list # <<>>

RECURSIVE PairsBag(_)
\* the bag of the (repo_name, digest) of a list's entries
PairsBag(list) ==
    IF list = <<>> THEN EmptyBag
    ELSE SetToBag({PairOf(Head(list))}) (+) PairsBag(Tail(list))

\* C5: what an execute run attempts to delete is what a dry run reports for
\* the same candidates: the same (repository_name, digest) entries, as often.
C5_DryRunReportsWhatExecuteAttempts ==
    /\ (phase = "done" /\ dry_run) =>
          PairsBag(unique_list) = PairsBag(UniqueList(all_artifacts_to_delete))
    /\ (phase = "done" /\ ~dry_run) =>
          deleteCalls = PairsBag(UniqueList(all_artifacts_to_delete))

\* C6: while a delete batch is running or done, or a delete_artifact call
\* was made, or cleanup is in its delete phase, no process_repository or
\* process_artifact worker is running or not yet started.
C6_ScanCompletesBeforeDelete ==
    (\/ phase = "delete"
     \/ deleteCalls # EmptyBag
     \/ \E b \in 1..Len(batchW) : batchW[b].st # "queued")
    => \A r \in 1..Len(repoW) :
          /\ repoW[r].st = "returned"
          /\ \A i \in 1..Len(repoW[r].artW) : repoW[r].artW[i].st = "done"

\* a delete batch is at work after a scan of two repositories
C6_Witness ==
    /\ Len(repoW) >= 2
    /\ \E r \in 1..Len(repoW) : Len(repoW[r].artW) >= 2
    /\ \E b \in 1..Len(batchW) : batchW[b].st = "running" /\ batchW[b].next > 1

\* C7: make_api_request makes at most 3 attempts; it returns the response of
\* the first successful attempt, which only non-certificate failures precede;
\* when all three attempts fail, the third failure is raised to the caller.
C7_AtMostThreeAttempts ==
    LET n == Len(rq.outcomes)
    IN  /\ n <= 3
        /\ rq.pc \in {"idle", "request", "sleeping", "returned", "raised"}
        /\ (n > 0 /\ rq.outcomes[n] = "ok") =>
              /\ rq.pc = "returned" /\ rq.result = "ok"
              /\ \A k \in 1..(n - 1) : rq.outcomes[k] \in Transient
        /\ rq.pc = "returned" => (n > 0 /\ rq.outcomes[n] = "ok")
        /\ (n = 3 /\ rq.outcomes[3] # "ok") =>
              /\ rq.pc = "raised"
              /\ rq.result = ExcOf(rq.outcomes[3])
              /\ rq.result \notin {"ok", "none"}

\* one call succeeded on its third attempt, and the next failed three times
C7_Witness ==
    /\ \E h \in 1..Len(rq.history) :
          /\ Len(rq.history[h].outcomes) = 3
          /\ rq.history[h].outcomes[3] = "ok"
          /\ rq.history[h].result = "ok"
    /\ rq.pc = "raised"
    /\ Len(rq.outcomes) = 3
    /\ \A k \in 1..3 : rq.outcomes[k] \in Transient

\* C8: an SSLError ends the call on the attempt that raised it: it is the
\* last attempt, it is raised to the caller, and no sleep follows it.
C8_SslNeverRetried ==
    \A k \in 1..Len(rq.outcomes) :
       rq.outcomes[k] = "ssl" =>
          /\ k = Len(rq.outcomes)
          /\ rq.pc = "raised"
          /\ rq.result = "SSLError"
          /\ Len(rq.slept) = k - 1

\* SSLError was raised on the second attempt of one call and on the third
\* of the next
C8_Witness ==
    /\ \E h \in 1..Len(rq.history) :
          /\ Len(rq.history[h].outcomes) = 2
          /\ rq.history[h].outcomes[2] = "ssl"
          /\ rq.history[h].pc = "raised"
    /\ rq.pc = "raised"
    /\ Len(rq.outcomes) = 3
    /\ rq.outcomes[3] = "ssl"

\* C9: an SSLError on any registry call of the run aborts the run: it leaves
\* cleanup(), and the run goes no further.
C9_SslAbortsRun ==
    sslSeen => (phase = "aborted" /\ topError = "SSLError")

\* the detail record is malformed
Malformed(d) == d.shape # "dict" \/ d.tags.kind = "notlist" \/ d.extra_attrs.kind = "null"

\* C10: an artifact whose scan failed or met missing or malformed data (no
\* details after the retries, no digest in the summary, a malformed detail
\* record) is not a candidate and has incremented errors by exactly one.
C10_FailedArtifactCountsOneError ==
    \A ri \in DoneArtifacts :
       (\/ ~SummaryOf(ri).has_digest
        \/ ~OutOf(ri).details.some
        \/ Malformed(OutOf(ri).details.json))
       => (~OutOf(ri).some /\ OutOf(ri).errors = 1)

\* the process_repository futures whose get_artifacts call raised
FailedListings == { r \in 1..Len(repoW) : repoW[r].exc # "none" }

\* C11: when get_artifacts raises after its retries, process_repository has
\* added exactly one to errors and nothing to repositories_processed and
\* artifacts_to_delete, has run no process_artifact and returned an empty
\* list, and no candidate list holds an artifact of that repository.
C11_ListingFailureCountsOneError ==
    /\ \A r \in FailedListings :
          /\ repoW[r].st = "returned" /\ ~repoW[r].listed
          /\ repoW[r].errors = 1 /\ repoW[r].processed = 0 /\ repoW[r].counted = 0
          /\ repoW[r].artW = <<>> /\ repoW[r].artifacts_to_delete = <<>>
          /\ \A a \in AllCandidateEntries : a.repo_name # repoW[r].repo_name
    /\ stats.repositories_processed =
          Cardinality({ r \in 1..Len(repoW) :
                          repoW[r].st = "returned" /\ repoW[r].listed })
    /\ stats.errors = Cardinality(FailedListings)
                      + Cardinality({ ri \in DoneArtifacts : OutOf(ri).errors = 1 })

\* the listing of one repository failed, another repository's candidates
\* went through the run
C11_Witness ==
    /\ phase = "done"
    /\ FailedListings # {}
    /\ all_artifacts_to_delete # <<>>
    /\ stats.repositories_processed = 1 /\ stats.errors = 1

\* the outcomes of a call that succeeds at once
AllOk == [i \in 1..max_retries |-> "ok"]

\* the finished process_artifact futures no failure has hit: the summary
\* had its digest and the detail request was answered
Unhit == { ri \in DoneArtifacts :
             SummaryOf(ri).has_digest /\ OutOf(ri).details.exc = "none" }

\* C12: a failure inside one artifact or one repository leaves the others
\* as a failure-free run has them: every artifact no failure has hit has
\* the result of a failure-free process_artifact; once the scan is over
\* every in-scope repository has returned, every listed artifact was
\* evaluated, and the merged list holds exactly the candidates among the
\* artifacts no failure has hit; and the scan never blocks.
C12_FailureIsolated ==
    /\ \A ri \in Unhit :
          OutOf(ri) = process_artifact(RepoNameOf(ri), SummaryOf(ri), AllOk)
    /\ phase \in {"delete", "done"} =>
          /\ Len(repoW) = Len(FilterRepos(registry.repos))
          /\ \A r \in 1..Len(repoW) :
                /\ repoW[r].st = "returned"
                /\ repoW[r].listed =>
                      /\ repoW[r].artifacts = registry.artifacts[repoW[r].repo_name]
                      /\ \A i \in 1..Len(repoW[r].artifacts) :
                            <<r, i>> \in DoneArtifacts
          /\ \A pair \in DOMAIN registry.details :
                InList(all_artifacts_to_delete, pair) =
                   Cardinality({ ri \in Unhit :
                                   /\ <<RepoNameOf(ri), SummaryOf(ri).digest>> = pair
                                   /\ process_artifact(RepoNameOf(ri), SummaryOf(ri),
                                                       AllOk).some })
    /\ phase = "scan" => ENABLED Next

\* a detail request and a listing failed, and the candidate of the
\* repository with the failed detail request was still deleted
C12_Witness ==
    /\ phase = "done" /\ ~dry_run /\ deleteRequests > 0
    /\ FailedListings # {}
    /\ \E ri \in DoneArtifacts :
          /\ OutOf(ri).details.exc # "none"
          /\ \E k \in 1..Len(all_artifacts_to_delete) :
                all_artifacts_to_delete[k].repo_name = RepoNameOf(ri)

\* C13: in a repository listed in exclusions['repositories'],
\* should_skip_artifact is true for every detail record, whatever its tags
\* and timestamps; no artifact of such a repository is returned by
\* process_artifact, is in a candidate list or is passed to delete_artifact.
C13_ExcludedRepositoryNeverCandidate ==
    /\ \A repo_name \in exclusions.repositories :
          \A pair \in DOMAIN registry.details :
             DetailsOf(pair).shape # "nondict" =>
                should_skip_artifact(repo_name, DetailsOf(pair)) = Val(TRUE)
    /\ \A ri \in DoneArtifacts :
          RepoNameOf(ri) \in exclusions.repositories => ~OutOf(ri).some
    /\ \A a \in AllCandidateEntries : a.repo_name \notin exclusions.repositories
    /\ \A pair \in BagToSet(deleteCalls) : pair[1] \notin exclusions.repositories

\* an old, unprotected artifact of an excluded repository was fetched and
\* kept, while the run deleted an artifact of another repository
C13_Witness ==
    /\ phase = "done" /\ ~dry_run /\ deleteRequests > 0
    /\ \E ri \in DoneArtifacts :
          /\ RepoNameOf(ri) \in exclusions.repositories
          /\ OutOf(ri).details.some
          /\ ~HasProtectedTag(OutOf(ri).details.json)
          /\ is_artifact_old(OutOf(ri).details.json) = Val(TRUE)
          /\ ~OutOf(ri).some

\* the short name of a listed repository contains "cdp" or "sdp"
NamedInScope(name) ==
    \/ Contains(ShortName(name), <<"c","d","p">>)
    \/ Contains(ShortName(name), <<"s","d","p">>)

\* C14: a repository whose short name contains neither "cdp" nor "sdp" is
\* never scanned: no listing, detail or delete request names it and no
\* candidate list holds one of its artifacts; a repository whose short name
\* contains one of them is submitted for scanning exactly once.
C14_OnlyInScopeRepositoriesScanned ==
    /\ \A q \in requested :
          \E j \in 1..Len(registry.repos) :
             ShortName(registry.repos[j]) = q[2] /\ NamedInScope(registry.repos[j])
    /\ \A a \in AllCandidateEntries :
          \E j \in 1..Len(registry.repos) :
             ShortName(registry.repos[j]) = a.repo_name /\ NamedInScope(registry.repos[j])
    /\ phase \notin {"start", "aborted"} =>
          \A j \in 1..Len(registry.repos) :
             Cardinality({ r \in 1..Len(repoW) :
                             /\ filtered_repos[r] = registry.repos[j]
                             /\ repoW[r].repo_name = ShortName(registry.repos[j]) })
                = IF NamedInScope(registry.repos[j]) THEN 1 ELSE 0

\* the run is over; it has listed, fetched and deleted in a repository named
\* *-sdp or *-cdp, beside a repository that is out of scope although "cdp"
\* is in its project path
C14_Witness ==
    /\ phase = "done"
    /\ \E j \in 1..Len(registry.repos) :
          /\ ~NamedInScope(registry.repos[j])
          /\ Contains(registry.repos[j], <<"c","d","p">>)
    /\ \E n \in {x_sdp} : {<<"list", n>>, <<"details", n>>} \subseteq requested
    /\ \E n \in {svc_cdp} : {<<"list", n>>, <<"details", n>>, <<"delete", n>>}
                                \subseteq requested

\* C15: at no moment are more than max_workers process_repository calls
\* running, more than max(1, min(5, n)) process_artifact calls of a
\* repository that listed n artifacts, or more than max_workers
\* delete_artifacts_batch calls.
C15_PoolsBounded ==
    /\ Cardinality(Running(repoW, "scanning")) <= max_workers
    /\ \A r \in 1..Len(repoW) :
          LET n == Len(repoW[r].artifacts)
          IN  Cardinality(Running(repoW[r].artW, "running"))
                 <= IF n < 1 THEN 1 ELSE IF n > 5 THEN 5 ELSE n
    /\ Cardinality(Running(batchW, "running")) <= max_workers

\* five process_artifact calls of a repository are running and a sixth
\* artifact of it waits for a thread
C15_Witness ==
    \E r \in 1..Len(repoW) :
       /\ Cardinality(Running(repoW[r].artW, "running")) = 5
       /\ Running(repoW[r].artW, "queued") # {}

\* C16: a delete_artifact call that fails stops no other: once an execute
\* run is over, delete_artifact has been called for every entry of the
\* candidate list, and artifacts_deleted is the number of delete_artifact
\* calls that returned True.
C16_FailedDeleteDoesNotStopOthers ==
    /\ \A b \in 1..Len(batchW) :
          batchW[b].st = "done" => batchW[b].next = Len(batches[b]) + 1
    /\ (phase = "done" /\ ~dry_run) =>
          /\ deleteCalls = PairsBag(all_artifacts_to_delete)
          /\ stats.artifacts_deleted = deleteOk
          /\ deleteOk <= BagCardinality(deleteCalls)

\* one batch of three candidates: one delete failed, the two others went
\* through
C16_Witness ==
    /\ phase = "done" /\ ~dry_run
    /\ Len(batches) = 1 /\ Len(batches[1]) = 3
    /\ BagCardinality(deleteCalls) = 3
    /\ deleteOk = 2 /\ stats.artifacts_deleted = 2

\* the candidates the registry's content and the policy determine
RegistryCandidates ==
    UNION { { <<n, registry.artifacts[n][i].digest>> :
                i \in { k \in 1..Len(registry.artifacts[n]) :
                          /\ registry.artifacts[n][k].has_digest
                          /\ LET d == registry.details[<<n, registry.artifacts[n][k].digest>>]
                             IN  /\ should_skip_artifact(n, d) = Val(FALSE)
                                 /\ is_artifact_old(d) = Val(TRUE) } }
            : n \in { ShortName(registry.repos[j]) :
                        j \in { k \in 1..Len(registry.repos) :
                                  NamedInScope(registry.repos[k]) } } }

\* no request of the scan has failed
FailureFree ==
    /\ FailedListings = {}
    /\ \A ri \in DoneArtifacts : OutOf(ri).details.exc = "none"

\* C17: the candidate set of a scan whose requests are all answered is a
\* function of the registry, the cutoff and the policy alone: whatever the
\* interleaving of the workers and the order of completion, it is the set of
\* listed artifacts of in-scope repositories that are not skipped and old.
C17_ScanCandidateSetDetermined ==
    /\ (phase \in {"delete", "done"} /\ FailureFree) =>
          { PairOf(all_artifacts_to_delete[k]) :
              k \in 1..Len(all_artifacts_to_delete) } = RegistryCandidates
    /\ (phase = "done" /\ dry_run /\ FailureFree) =>
          { PairOf(unique_list[k]) : k \in 1..Len(unique_list) } = RegistryCandidates

\* a scan without a failed request has merged three candidates in another
\* order than the listing's
C17_Witness ==
    /\ phase = "done" /\ FailureFree
    /\ Len(all_artifacts_to_delete) = 3
    /\ all_artifacts_to_delete[1].digest = sha_c
    /\ all_artifacts_to_delete[3].digest = sha_a

\* the process_artifact threads of the stepped scan
ArtifactThreads == { id \in ThreadIds : id[2] # 0 }

\* the process_artifact call of a thread got a usable detail record
ObtainedDetails(id) ==
    /\ ThreadOf(id).out.details.some
    /\ ThreadOf(id).out.details.json.shape # "empty"

\* the process_artifact call of a thread ended in its `except Exception`
CaughtInArtifact(id) ==
    LET repo_name == lk.threads[id[1]].repo_name
        d         == ThreadOf(id).out.details.json
    IN  \/ ~lk.threads[id[1]].artifacts[id[2]].has_digest
        \/ /\ ObtainedDetails(id)
           /\ \/ should_skip_artifact(repo_name, d).exc
              \/ /\ should_skip_artifact(repo_name, d) = Val(FALSE)
                 /\ is_artifact_old(d).exc

\* every thread of the scan has run to its end
ScanThreadsFinished == \A id \in ThreadIds : Finished(ThreadOf(id))

\* one thread is between the read and the write of errors while another
\* thread, which will add to errors too, waits for the lock (a state the
\* stepped scan passes through)
LockContended ==
    /\ stats.artifacts_checked >= 1
    /\ \E id \in ThreadIds :
          /\ ThreadOf(id).pc = "store"
          /\ Head(Head(ThreadOf(id).todo)).field = "errors"
          /\ \E waiting \in ThreadIds \ {id} :
                /\ ThreadOf(waiting).pc = "work"
                /\ ThreadOf(waiting).todo # <<>>
                /\ Head(Head(ThreadOf(waiting).todo)).field = "errors"

\* C18: the updates of self._stats are made under self._lock and none is
\* lost, whatever the interleaving: the lock has one holder, which is the
\* only thread inside an update; and when the scan is over
\* artifacts_checked is the number of process_artifact calls that got
\* details, errors is the number of exceptions caught in process_artifact
\* and process_repository, and repositories_processed is the number of
\* repositories scanned without a repository-level failure.
C18_NoLostStatsUpdate ==
    /\ \A id \in ThreadIds :
          ThreadOf(id).pc \in {"load", "store"} => lk.holder = id
    /\ ScanThreadsFinished =>
          /\ stats.artifacts_checked =
                Cardinality({ id \in ArtifactThreads : ObtainedDetails(id) })
          /\ stats.errors =
                Cardinality({ id \in ArtifactThreads : CaughtInArtifact(id) })
                + Cardinality({ r \in 1..Len(lk.threads) : lk.threads[r].exc # "none" })
          /\ stats.repositories_processed =
                Cardinality({ r \in 1..Len(lk.threads) : lk.threads[r].listed })
          /\ stats.artifacts_to_delete =
                Cardinality({ id \in ArtifactThreads : ThreadOf(id).out.some })

\* a scan is over in which two repositories were processed and several
\* threads have added to artifacts_checked and to errors
C18_Witness ==
    /\ ScanThreadsFinished
    /\ stats.repositories_processed = 2
    /\ stats.artifacts_checked >= 3
    /\ stats.errors >= 2

\* a timestamp field parses and its year is after 1970
Usable(f) == f.kind = "time" /\ Year(f.t) > 1970

\* the reference timestamp of a detail record: the first usable one of
\* pull_time, push_time and extra_attrs.created, <<>> when there is none
ReferenceTime(d) ==
    IF Usable(d.pull_time) THEN <<d.pull_time.t>>
    ELSE IF Usable(d.push_time) THEN <<d.push_time.t>>
    ELSE IF d.extra_attrs.kind = "dict" /\ Usable(d.extra_attrs.created)
         THEN <<d.extra_attrs.created.t>>
    ELSE <<>>

\* C19: is_artifact_old(details) is true iff the reference timestamp is
\* absent or strictly earlier than cutoff_date, the reference timestamp
\* being the first of pull_time, push_time, extra_attrs.created that parses
\* and has a year after 1970; a timestamp equal to the cutoff is not old.
C19_OldIffReferenceAbsentOrBeforeCutoff ==
    pol.pc = "evaluated" =>
       LET ref == ReferenceTime(pol.details)
       IN  pol.old = Val(ref = <<>> \/ ref[1] < cutoff_date)

\* the same on the records whose extra_attrs and extra_attrs.created are
\* not null, or are not reached
PolicyOldWhereCreatedReadable ==
    (/\ pol.pc = "evaluated"
     /\ \/ Usable(pol.details.pull_time)
        \/ Usable(pol.details.push_time)
        \/ /\ pol.details.extra_attrs.kind # "null"
           /\ pol.details.extra_attrs.created.kind # "null")
    => LET ref == ReferenceTime(pol.details)
       IN  /\ pol.old = Val(ref = <<>> \/ ref[1] < cutoff_date)
           /\ pol.last = IF ref = <<>> THEN NoTime ELSE At(ref[1])

\* C20: in execute mode the candidate list is grouped into no more than
\* max_workers batches, for every total >= 1 and max_workers >= 1, with
\* batch_size = max(1, total / max_workers).
C20_AtMostMaxWorkersBatches ==
    bt.pc = "batched" => Len(bt.batches) <= bt.max_workers

\* C20 (amended): the candidate list is grouped into ceil(total / batch_size)
\* batches with batch_size = max(1, total / max_workers); these are never
\* more than 2 * max_workers - 1, and they are no more than max_workers
\* exactly when total < max_workers or max_workers divides total.
C20_BatchCount ==
    bt.pc = "batched" =>
       LET total == Len(bt.artifacts_to_delete)
           mw    == bt.max_workers
           size  == IF total \div mw < 1 THEN 1 ELSE total \div mw
           count == Len(bt.batches)
       IN  /\ count = (total + size - 1) \div size
           /\ count <= 2 * mw - 1
           /\ count <= mw <=> (total < mw \/ total % mw = 0)

\* a list was grouped into more batches than max_workers, into the most
\* there can be
C20_Witness ==
    /\ bt.pc = "batched"
    /\ bt.max_workers >= 2
    /\ Len(bt.batches) = 2 * bt.max_workers - 1

RECURSIVE Concat(_)
\* the concatenation of a sequence of lists, in order
Concat(lists) == IF lists = <<>> THEN <<>> ELSE Head(lists) \o Concat(Tail(lists))

\* C21: the batches of _delete_artifacts_parallel are non-empty and their
\* concatenation in order is the candidate list; the one worker of a batch
\* passes its entries to delete_artifact one at a time in list order; and
\* when the run is over every entry of the list has had exactly one delete
\* attempt.  The first half is also stated for every list of up to MaxTotal
\* candidates and every max_workers up to MaxBatchWorkers.
C21_BatchesPartitionInOrder ==
    /\ \A n \in 1..MaxTotal : \A mw \in 1..MaxBatchWorkers :
          LET grouped == Slices(CandidateList(n), batch_size(n, mw))
          IN  /\ Concat(grouped) = CandidateList(n)
              /\ \A b \in 1..Len(grouped) : grouped[b] # <<>>
    /\ phase = "delete" =>
          /\ Concat(batches) = all_artifacts_to_delete
          /\ \A b \in 1..Len(batches) : batches[b] # <<>>
          /\ Len(batchW) = Len(batches)
    /\ \A b \in 1..Len(batchW) :
          /\ batchW[b].next <= Len(batches[b]) + 1
          /\ batchW[b].attempted = SubSeq(batches[b], 1, batchW[b].next - 1)
    /\ (phase = "done" /\ batches # <<>>) =>
          /\ Concat([b \in 1..Len(batchW) |-> batchW[b].attempted])
                = all_artifacts_to_delete
          /\ deleteCalls = PairsBag(all_artifacts_to_delete)

\* three candidates went to two workers in three batches, and all three
\* were attempted
C21_Witness ==
    /\ phase = "done" /\ max_workers = 2
    /\ Len(batches) = 3
    /\ BagCardinality(deleteCalls) = 3

\* C22: a listing requests the pages 1, 2, 3, ... in order, each after a
\* full page, and stops at the first page that is empty or shorter than
\* the page size; when no page request fails it returns all the items of
\* the registry, each once, in page order; when a page request fails the
\* exception reaches the caller and no list does.  PageLoop, the listing as
\* the runs use it, gives the same result.
C22_ListingPagesInOrder ==
    LET size(p) == Len(PageOf(pg.items, pg.page_size, p))
        n       == Len(pg.pages)
    IN  pg.pc # "idle" =>
          /\ pg.pages = [k \in 1..n |-> k]
          /\ \A k \in 1..(n - 1) :
                /\ size(k) = pg.page_size
                /\ make_api_request(pg.outs[k]).status = "ok"
          /\ pg.pc = "loop" =>
                /\ pg.page = n + 1
                /\ n > 0 => (size(n) = pg.page_size
                             /\ make_api_request(pg.outs[n]).status = "ok")
          /\ pg.pc = "returned" =>
                /\ size(n) < pg.page_size
                /\ make_api_request(pg.outs[n]).status = "ok"
                /\ pg.result = [status |-> "ok", items |-> pg.items]
          /\ pg.pc = "raised" =>
                /\ make_api_request(pg.outs[n]).status \notin {"ok", "none"}
                /\ pg.result = [status |-> make_api_request(pg.outs[n]).status,
                                items |-> <<>>]
          /\ pg.pc \in {"returned", "raised"} =>
                PageLoop(pg.items, pg.page_size, 1, <<>>, pg.outs) = pg.result

\* six items in pages of three were listed with a third, empty page, the
\* second page on its third attempt
C22_Witness ==
    /\ pg.pc = "returned"
    /\ Len(pg.items) = 6 /\ pg.page_size = 3
    /\ pg.pages = <<1, 2, 3>>
    /\ make_api_request(pg.outs[2]).requests = 3
    /\ pg.result.items = <<1, 2, 3, 4, 5, 6>>

release_2024  == <<"r","e","l","e","a","s","e","-","2","0","2","4">>
snapshot_2024 == <<"2","0","2","4","-","s","n","a","p","s","h","o","t">>
release_star  == <<"r","e","l","e","a","s","e","-","*">>
star_snapshot == <<"*","-","s","n","a","p","s","h","o","t">>

\* the pattern without its trailing / leading character
DropLast(p)  == SubSeq(p, 1, Len(p) - 1)
DropFirst(p) == SubSeq(p, 2, Len(p))

\* the match as the specification words it
PrefixOrSuffixMatch(p, t) ==
    \/ Len(p) > 0 /\ p[Len(p)] = "*" /\ StartsWith(t, DropLast(p))
    \/ Len(p) > 0 /\ p[1] = "*" /\ EndsWith(t, DropFirst(p))

\* C23: a tag matches a pattern ending in '*' iff it starts with the
\* pattern minus that '*', and a pattern starting with '*' iff it ends with
\* the pattern minus that '*'; a pattern with neither matches no tag; an
\* artifact that no earlier rule skips is skipped iff one of its tags
\* matches one of the configured patterns; release-2024 matches release-*,
\* 2024-snapshot matches *-snapshot, v1 matches neither.
C23_TagPatternExclusion ==
    /\ PatternMatches(release_star, release_2024)
    /\ PatternMatches(star_snapshot, snapshot_2024)
    /\ ~PatternMatches(release_star, v1)
    /\ ~PatternMatches(star_snapshot, v1)
    /\ pm.pc = "tested" =>
         LET p == pm.pattern
             t == pm.tag_name
         IN  /\ (Len(p) > 0 /\ p[Len(p)] = "*") =>
                   (pm.matches <=> StartsWith(t, DropLast(p)))
             /\ (Len(p) > 0 /\ p[1] = "*") =>
                   (pm.matches <=> EndsWith(t, DropFirst(p)))
             /\ (Len(p) = 0 \/ (p[1] # "*" /\ p[Len(p)] # "*")) => ~pm.matches
             /\ (\A n \in TagNames(pm.tags) : n \notin protected_tags) =>
                   pm.skip = Val(\E n \in TagNames(pm.tags) :
                                  \E k \in 1..Len(exclusions.tags_patterns) :
                                     PrefixOrSuffixMatch(exclusions.tags_patterns[k], n))

\* a suffix pattern matched the tag, and a record was skipped for its
\* second tag, which ends in -snap
C23_Witness ==
    /\ pm.pc = "tested"
    /\ pm.pattern = <<"*", "-", "a">> /\ pm.tag_name = <<"a", "-", "a">>
    /\ pm.matches
    /\ pm.tags = TagList(<<Tag(v1), Tag(<<"a","-","s","n","a","p">>)>>)
    /\ pm.skip = Val(TRUE)

\* C24: after an execute run, the size-freed figure that cleanup reports
\* is the sum of size_bytes over the artifacts whose delete call reported
\* success (the figure is kept as the quotient num / den of byte counts).
C24_SizeFreedIsSumOverSuccesses ==
    (phase = "done" /\ deleted_size.some) =>
        deleted_size.num = freedBytes * deleted_size.den

\* the scan is over: every process_repository future has been merged
ScanOver == (phase = "scan" /\ ScanJoined) \/ phase \in {"delete", "done"}

\* C25: at the end of the scan, whatever the interleaving of the workers
\* and whatever requests failed, the artifacts_to_delete counter is the
\* length of the merged candidate list, duplicates included, and is no more
\* than artifacts_checked.
C25_CounterIsListLength ==
    ScanOver =>
        /\ stats.artifacts_to_delete = Len(all_artifacts_to_delete)
        /\ stats.artifacts_to_delete <= stats.artifacts_checked

\* a scan with failed requests ended with a (repository, digest) pair twice
\* in the list and with more artifacts checked than marked
C25_Witness ==
    /\ phase = "delete"
    /\ stats.errors > 0
    /\ \E i, j \in 1..Len(all_artifacts_to_delete) :
          i < j /\ Key(all_artifacts_to_delete[i]) = Key(all_artifacts_to_delete[j])
    /\ stats.artifacts_to_delete = Len(all_artifacts_to_delete)
    /\ stats.artifacts_to_delete < stats.artifacts_checked

\* every run ends: cleanup returns or leaves with an exception
RunTerminates == <>(phase \in {"done", "aborted"})

\* a worker inside process_artifact or delete_artifact (its requests and
\* backoff sleeps) never keeps another started worker from finishing
NoWorkerBlocksAnother ==
    /\ \A r \in 1..Len(repoW) : \A i \in 1..Len(repoW[r].artW) :
          (repoW[r].st = "scanning" /\ repoW[r].artW[i].st = "running")
              => ENABLED ArtifactRun(r, i)
    /\ \A b \in 1..Len(batchW) :
          (phase = "delete" /\ batchW[b].st = "running")
              => (ENABLED BatchDelete(b) \/ ENABLED BatchFinish(b))

\* C26: under fair scheduling every run reaches its delete or dry-run phase
\* and then its final statistics, whatever requests fail; only a
\* certificate error, which the specification lets abort a run, is set
\* aside here.
C26_RunReachesFinalStatistics ==
    <>(phase = "done" \/ topError = "SSLError")

=============================================================================
